---- MODULE Spec2Model ----
(***************************************************************************)
(* A model of the ZX Spectrum Watcher (EKBlowfish/SNIPER): the SQLite      *)
(* Store (src/db.py and src/Untitled-1.py), the change flags of the v3     *)
(* revision, the total computation of the revisions, the scan cycle        *)
(* (worker_fetch and the Tk application that drives it), the listing key,  *)
(* the HTTP helpers and the sparkline.                                     *)
(*                                                                         *)
(* One specification per subsystem; the variables of the other subsystems  *)
(* keep their initial value:                                               *)
(*   SpecStore   threads calling Store.upsert_item / get_price_history,    *)
(*               and a second connection reading the file (read_history)   *)
(*   SpecV3      the v3 worker: upsert_ad and the NEW / DROP flags         *)
(*   SpecTotal   the totals the revisions store and emit                   *)
(*   SpecCycle   worker_fetch and the application's Fetch Now, auto-fetch, *)
(*               Stop and queue polling                                    *)
(*   SpecCycleFair  SpecCycle with the worker threads and the queue poll   *)
(*               scheduled fairly                                          *)
(*   SpecKey     the listing key over several runs of the program          *)
(*   SpecNet     polite_get and fetch_bytes against the stop signal        *)
(*   SpecSpark   the sparkline functions                                   *)
(*   SpecMoney   the money parsers of the revisions                        *)
(*   SpecDiscover  the discovery of candidates and their upserts           *)
(*   SpecStoreFail  SpecStore with an upsert that fails after its ads      *)
(*               statement                                                 *)
(*   SpecRefetch the pass of worker_fetch over a known listing             *)
(*   SpecV32     Fetch Now, Stop and the worker threads of v32             *)
(***************************************************************************)
EXTENDS Integers, Sequences, FiniteSets, TLC

\* ------------------------------------------------------------- bounds ----
\* upsert_item calls in one run.
MaxCalls == 2
\* Largest limit passed to get_price_history.
MaxLimit == 2
\* Ads the v3 worker handles in one run.
MaxObs == 3
\* Records the revisions store or emit in one run.
MaxRecs == 2
\* URLs the Marktplaats search page yields, results the eBay page yields.
MaxUrls == 2
MaxEbay == 1
\* Start requests made while a cycle runs, in one run.
MaxReq == 2
\* Times the program is started on the same database.
MaxRuns == 2
\* Calls of polite_get and fetch_bytes in one run.
MaxNetCalls == 2
\* The longest price history handed to sparkline.
MaxHist == 18
MaxThreads == 2     \* threads the App of v32 starts

\* ------------------------------------------------------------ values ----
\* Optional[float]: None is the empty tuple, a known amount v is <<v>>.
None == <<>>
Some(v) == <<v>>
Known(x) == x # None
Val(x) == x[1]

Threads == {1, 2}
\* The values the wall clock takes (datetime.now), in order.
Times == {0, 1}
Keys == {"MP:m1", "EBAY:2"}

\* The two Store classes of the repository: src/db.py (one UPSERT statement)
\* and src/Untitled-1.py (SELECT, then UPDATE or INSERT).
Impls == {"db", "main"}

\* Item: the fields upsert_item reads (amounts in whole euros).
Items ==
    { [price_eur |-> None,     ship_eur |-> None,    total_eur |-> None],
      [price_eur |-> Some(10), ship_eur |-> Some(2), total_eur |-> Some(12)],
      [price_eur |-> Some(8),  ship_eur |-> None,    total_eur |-> None] }

\* Keys by source, and the amounts a page may show.
MpKeys == {"MP:m1"}
EbayKeys == {"EBAY:2"}
OptPrices == {None, Some(8), Some(10)}
OptShips == {None, Some(3)}

Min(a, b) == IF a <= b THEN a ELSE b

\* Listing URLs: id is the number the pattern /m(\d+)- finds in the URL, None
\* when the URL has none; no stands for the text of the URL.
Urls == {[id |-> Some(1), no |-> 1], [id |-> None, no |-> 2], [id |-> None, no |-> 3]}

\* The seeds an interpreter may start with: PYTHONHASHSEED is drawn at random
\* for each process unless the environment fixes it.
Seeds == {0, 1, 2}

Versions == {"main", "v3", "v32"}

\* --------------------------------------------------------- variables ----
VARIABLES
    impl,       \* which Store class is running
    ads,        \* table ads: a set of rows (key is the PRIMARY KEY)
    hist,       \* table price_history: rows in insertion (rowid) order
    lock,       \* Store.lock: 0 when free, else the thread that holds it
    clock,      \* the wall clock
    pc,         \* per thread: where it is in its Store call
    arg,        \* per thread: the call's arguments and locals
    ret,        \* what a get_price_history call returned to its caller (of:
                \* how many entries the key had, torn: see Torn)
    nCalls,     \* upsert_item calls made so far
    issued,     \* per key: upsert_item calls made with a derivable price
    expHist,    \* the history entries the returned calls' records call for
    lastCall,   \* per key: the record and time of the last call that wrote ads
    failed,     \* upsert_item calls that raised
    raced,      \* a call on a key began while another call on that key ran
    rd          \* what a read_history in progress saw (second connection)

\* The v3 revision (src/OLD/gui_zx_watcher_marktplaats_ebay_v3.py).
VARIABLES
    v3ads,      \* table ads: ad_id -> None, or the row's last_price_numeric
    v3hist,     \* table price_history, in insertion order
    v3log       \* every ad the worker has handled, with what upsert_ad
                \* returned for it and the flags the worker gave it

\* The totals of the three revisions that compute one.
VARIABLES
    totRecs     \* the records stored or emitted so far, in order

\* The scan cycle of src/Untitled-1.py.
VARIABLES
    fetch_running,  \* ZXWatcherApp.fetch_running
    stop_event,     \* ZXWatcherApp.stop_event (threading.Event)
    qout,           \* ZXWatcherApp.queue: the messages not yet polled
    workers,        \* per thread slot: the worker_fetch thread in it, if any
    nAlready,       \* "Fetch already running." lines in the log
    lastDone,       \* the text of the last MSG_DONE the application handled
    emitted,        \* MSG_UPSERT records the running cycle has put
    histFor,        \* the candidates of the cycle whose upsert appended history
    stopAfter,      \* Some(k): stop_event was set between the record of
                    \* candidate k and the fetch of candidate k+1
    rejNow,         \* Fetch Now requests made while a cycle was running
    rejAuto,        \* auto-fetch ticks that came while a cycle was running
    shown           \* the records of the running cycle that _handle_message
                    \* has put into the table, in order

\* The listing key over several runs of the program.
VARIABLES
    hashSeed,       \* the seed of hash() in the running interpreter, None before
                    \* the first run
    kver,           \* the version of the program that is run: "none", "main",
                    \* "v3" or "v32"
    kruns,          \* process runs started so far
    kads,           \* the keys of the rows of ads; the database outlives a run
    keysOf,         \* for every URL, the keys computed for it so far
    kfresh          \* the URLs that were stored and later met no row of ads

\* One caller of the HTTP helpers at a time, and the stop signal.
VARIABLES
    nver,           \* the module whose helper runs: "main" (Untitled-1.py) or "net"
    nop,            \* "polite_get" or "fetch_bytes"
    nstop,          \* stop_event.is_set()
    npc,            \* "idle", "head", "sleep", "retry", "returned" or "raised"
    ni,             \* the place in RETRY_BACKOFF of the running attempt
    ngets,          \* session.get calls of the running call
    nretries,       \* resends the adapter of net.make_session has made
    nwire,          \* GET requests of the running call that went out
    nlate,          \* a GET request went out while the stop signal was set
    ngot,           \* the last response the transport gave, None if none
    nret,           \* what the call returned
    ncalls          \* calls made so far

\* The last call of sparkline.
VARIABLES
    sver,           \* the revision whose sparkline ran: "none", "main" or "v31"
    shist,          \* its values
    swidth,         \* its width; Untitled-1.py has the width 16 built in
    strend          \* the string it returned, one element for each character

\* The running call of a money parser.
VARIABLES
    mver,           \* the revision whose parser was called: "none", "main",
                    \* "v31", "v3" or "old"
    mtext,          \* its text, one element for each character or wording
    mret            \* what it returned: None, or the amount n / 10^k

\* The candidates of one scan cycle.
VARIABLES
    dsrc,           \* the source the worker is at: "none", "mp" or "ebay"
    dcands,         \* what discovery returned and the worker has not yet
                    \* processed: URLs of Marktplaats, items of eBay
    dupserted       \* the keys upserted in this cycle, in order

\* The rows of ads with their titles, over the passes of the worker.
VARIABLES
    frows,          \* for every Marktplaats URL, its row of ads: None, or the
                    \* title and the last prices
    flast           \* the last pass: its URL, the status polite_get came
                    \* back with, and the row before the pass

\* The App of v32: the fetching flag, its worker threads and its queue.
VARIABLES
    wfetching,      \* self.fetching
    wpc,            \* for every thread, where it is in _worker
    wi,             \* for every thread, the index i of its loop
    wn,             \* for every thread, len(urls)
    wq,             \* self.q
    wtree,          \* the rows inserted in the table
    wstopped,       \* the threads that were running when Stop was pressed
    wlate           \* a thread of wstopped found the flag set afterwards

storeVars == <<impl, ads, hist, lock, clock, pc, arg, ret, nCalls, issued,
               expHist, lastCall, failed, raced, rd>>
v3Vars == <<v3ads, v3hist, v3log>>
totVars == <<totRecs>>
cycVars == <<fetch_running, stop_event, qout, workers, nAlready, lastDone,
             emitted, histFor, stopAfter, rejNow, rejAuto, shown>>

keyVars == <<hashSeed, kver, kruns, kads, keysOf, kfresh>>
netVars == <<nver, nop, nstop, npc, ni, ngets, nretries, nwire, nlate, ngot,
             nret, ncalls>>
sparkVars == <<sver, shist, swidth, strend>>
moneyVars == <<mver, mtext, mret>>
discVars == <<dsrc, dcands, dupserted>>
refetchVars == <<frows, flast>>
v32Vars == <<wfetching, wpc, wi, wn, wq, wtree, wstopped, wlate>>
pureVars == <<keyVars, netVars, sparkVars, moneyVars, discVars, refetchVars, v32Vars>>
vars == <<storeVars, v3Vars, totVars, cycVars, pureVars>>

NoArg == [op |-> "none"]
NoRead == [n |-> 0]
NoRet == [n |-> 0]

\* ------------------------------------------------------ Store (SQL) ----
\* The rows of key k.
AdsOf(a, k) == {r \in a : r.key = k}

NewRow(k, it, now) ==
    [key |-> k, last_price |-> it.price_eur, last_ship |-> it.ship_eur,
     last_total |-> it.total_eur, first_seen |-> now, last_seen |-> now]

\* An update that sets first_seen as well.
UpdatedMutant(r, it, now) ==
    [r EXCEPT !.last_price = it.price_eur, !.last_ship = it.ship_eur,
              !.last_total = it.total_eur, !.first_seen = now, !.last_seen = now]

\* UPDATE ads SET ... last_seen=? WHERE key=?  (first_seen is not in the SET list)
Updated(r, it, now) ==
    [r EXCEPT !.last_price = it.price_eur, !.last_ship = it.ship_eur,
              !.last_total = it.total_eur, !.last_seen = now]

SqlUpdate(a, k, it, now) ==
    {IF r.key = k THEN Updated(r, it, now) ELSE r : r \in a}

\* INSERT INTO ads ...: the caller checks the PRIMARY KEY first.
SqlInsert(a, k, it, now) == a \cup {NewRow(k, it, now)}

\* INSERT ... ON CONFLICT(key) DO UPDATE SET ...
SqlUpsert(a, k, it, now) ==
    IF AdsOf(a, k) # {} THEN SqlUpdate(a, k, it, now) ELSE SqlInsert(a, k, it, now)

\* A Store that prefers the item price to the total.
PriceForHistMutant(it) ==
    IF Known(it.price_eur) THEN it.price_eur ELSE it.total_eur

\* price_for_hist = it.total_eur if (it.total_eur is not None) else it.price_eur
PriceForHist(it) ==
    IF Known(it.total_eur) THEN it.total_eur ELSE it.price_eur

\* if price_for_hist is not None: INSERT INTO price_history(key, seen_at, price)
HistAppend(h, k, it, now) ==
    IF Known(PriceForHist(it))
    THEN Append(h, [key |-> k, seen_at |-> now, price |-> Val(PriceForHist(it))])
    ELSE h

\* The rowids of key k in price_history.
KeyIdx(h, k) == {i \in 1..Len(h) : h[i].key = k}

\* The orders in which SQLite may return the rows of S: every one-to-one
\* listing of them.
Listings(S) ==
    {f \in [1..Cardinality(S) -> S] : \A a, b \in 1..Cardinality(S) : a # b => f[a] # f[b]}

\* WHERE key=? ORDER BY seen_at DESC: rows of equal seen_at come in any order.
OrderBySeenAtDesc(h, k) ==
    {f \in Listings(KeyIdx(h, k)) :
        \A a, b \in DOMAIN f : a < b => h[f[a]].seen_at >= h[f[b]].seen_at}

\* WHERE key=? ORDER BY seen_at ASC
OrderBySeenAtAsc(h, k) ==
    {f \in Listings(KeyIdx(h, k)) :
        \A a, b \in DOMAIN f : a < b => h[f[a]].seen_at <= h[f[b]].seen_at}

\* list.reverse()
Reverse(s) == [j \in 1..Len(s) |-> s[Len(s) + 1 - j]]

\* SELECT price ... ORDER BY seen_at DESC LIMIT ?: the lists the query may give.
SelectRecent(h, k, limit) ==
    {[j \in 1..Min(limit, Len(f)) |-> h[f[j]].price] : f \in OrderBySeenAtDesc(h, k)}

\* get_price_history without rows.reverse().
GetPriceHistoryResultsMutant(h, k, limit) == SelectRecent(h, k, limit)

\* Store.get_price_history of src/db.py: the query, then rows.reverse().
GetPriceHistoryResults(h, k, limit) ==
    {Reverse(rows) : rows \in SelectRecent(h, k, limit)}

\* read_history of src/bids_analysis.py: (seen_at, price) rows, oldest first.
ReadHistoryResults(h, k) ==
    {[j \in DOMAIN f |-> <<h[f[j]].seen_at, h[f[j]].price>>] : f \in OrderBySeenAtAsc(h, k)}

\* The file holds the ads row of an upsert whose history entry it does not
\* hold yet: key k's row carries a priced observation seen at last_seen and
\* price_history has no entry of k at that time with that price.
Torn(a, h, k) ==
    \E r \in AdsOf(a, k) :
        /\ Known(r.last_total) \/ Known(r.last_price)
        /\ ~ \E i \in KeyIdx(h, k) :
               /\ h[i].seen_at = r.last_seen
               /\ h[i].price = (IF Known(r.last_total) THEN Val(r.last_total)
                                ELSE Val(r.last_price))

\* ------------------------------------------------------------- Init ----
StoreInit ==
    /\ impl \in Impls
    /\ ads = {}
    /\ hist = <<>>
    /\ lock = 0
    /\ clock = 0
    /\ pc = [t \in Threads |-> "idle"]
    /\ arg = [t \in Threads |-> NoArg]
    /\ ret = NoRet
    /\ nCalls = 0
    /\ issued = [k \in Keys |-> 0]
    /\ expHist = <<>>
    /\ lastCall = [k \in Keys |-> <<>>]
    /\ failed = 0
    /\ raced = FALSE
    /\ rd = NoRead

\* ensure_db on an empty file; the worker has handled nothing.
V3Init ==
    /\ v3ads = [k \in Keys |-> None]
    /\ v3hist = <<>>
    /\ v3log = <<>>

TotInit == totRecs = <<>>

NoWorker == [pc |-> "none"]

\* ZXWatcherApp.__init__: no cycle runs, the event is clear, the queue empty.
CycInit ==
    /\ fetch_running = FALSE
    /\ stop_event = FALSE
    /\ qout = <<>>
    /\ workers = [w \in {1, 2} |-> NoWorker]
    /\ nAlready = 0
    /\ lastDone = None
    /\ emitted = 0
    /\ histFor = {}
    /\ stopAfter = None
    /\ rejNow = 0
    /\ rejAuto = 0
    /\ shown = <<>>

KeyInit ==
    /\ hashSeed = None
    /\ kver = "none"
    /\ kruns = 0
    /\ kads = {}
    /\ keysOf = [u \in Urls |-> {}]
    /\ kfresh = {}

NetInit ==
    /\ nver = "main"
    /\ nop = "polite_get"
    /\ nstop = FALSE
    /\ npc = "idle"
    /\ ni = 1
    /\ ngets = 0
    /\ nretries = 0
    /\ nwire = 0
    /\ nlate = FALSE
    /\ ngot = None
    /\ nret = None
    /\ ncalls = 0

SparkInit ==
    /\ sver = "none"
    /\ shist = <<>>
    /\ swidth = 0
    /\ strend = <<>>

MoneyInit ==
    /\ mver = "none"
    /\ mtext = <<>>
    /\ mret = None

DiscInit ==
    /\ dsrc = "none"
    /\ dcands = <<>>
    /\ dupserted = <<>>

RefetchInit ==
    /\ frows = [u \in {1, 2} |-> None]
    /\ flast = None

\* App.__init__ of v32: self.q = queue.Queue(); self.fetching = False.
V32Init ==
    /\ wfetching = FALSE
    /\ wpc = [t \in 1..MaxThreads |-> "unborn"]
    /\ wi = [t \in 1..MaxThreads |-> 0]
    /\ wn = [t \in 1..MaxThreads |-> 0]
    /\ wq = <<>>
    /\ wtree = <<>>
    /\ wstopped = {}
    /\ wlate = FALSE

Init ==
    /\ StoreInit /\ V3Init /\ TotInit /\ CycInit
    /\ KeyInit /\ NetInit /\ SparkInit /\ MoneyInit /\ DiscInit /\ RefetchInit
    /\ V32Init

\* The start of the specifications in which the Store classes take no step.
InitStoreAside == Init /\ impl = "db"

\* ---------------------------------------------------- Store actions ----
Priced(it) == Known(it.total_eur) \/ Known(it.price_eur)

InUpsert(t, k) == pc[t] \in {"lock", "write", "hist"} /\ arg[t].key = k

\* datetime.now(timezone.utc) moves on.
Tick ==
    /\ clock + 1 \in Times
    /\ clock' = clock + 1
    /\ UNCHANGED <<impl, ads, hist, lock, pc, arg, ret, nCalls, issued, expHist,
                   lastCall, failed, raced, rd>>
    /\ UNCHANGED <<v3Vars, totVars, cycVars, pureVars>>

\* upsert_item(it): now is read before the lock is taken.
UpsertCall(t, k, it) ==
    /\ pc[t] = "idle"
    /\ nCalls < MaxCalls
    /\ nCalls' = nCalls + 1
    /\ issued' = [issued EXCEPT ![k] = @ + (IF Priced(it) THEN 1 ELSE 0)]
    /\ raced' = (raced \/ \E u \in Threads \ {t} : InUpsert(u, k))
    /\ arg' = [arg EXCEPT ![t] = [op |-> "upsert", key |-> k, it |-> it,
                                  now |-> clock, exists |-> FALSE]]
    /\ pc' = [pc EXCEPT ![t] = "lock"]
    /\ UNCHANGED <<impl, ads, hist, lock, clock, ret, expHist, lastCall, failed, rd>>
    /\ UNCHANGED <<v3Vars, totVars, cycVars, pureVars>>

\* A Store whose lock never holds anyone back.
LockFreeMutant == TRUE

\* threading.Lock: free when no thread holds it.
LockFree == lock = 0

\* with self.lock: ... ; src/Untitled-1.py then runs SELECT key FROM ads.
UpsertAcquire(t) ==
    /\ pc[t] = "lock"
    /\ LockFree
    /\ lock' = t
    /\ arg' = [arg EXCEPT ![t].exists =
                  (impl = "main" /\ AdsOf(ads, arg[t].key) # {})]
    /\ pc' = [pc EXCEPT ![t] = "write"]
    /\ UNCHANGED <<impl, ads, hist, clock, ret, nCalls, issued, expHist, lastCall,
                   failed, raced, rd>>
    /\ UNCHANGED <<v3Vars, totVars, cycVars, pureVars>>

\* The ads statement; the connection is in autocommit mode
\* (isolation_level=None), so the statement is in the file when it returns.
\* In src/Untitled-1.py an INSERT of a key that is in the table raises
\* sqlite3.IntegrityError: the call ends there and the with statement
\* releases the lock.
UpsertWrite(t) ==
    /\ pc[t] = "write"
    /\ LET a == arg[t]
           raises == impl = "main" /\ ~a.exists /\ AdsOf(ads, a.key) # {}
       IN  /\ ads' = IF raises THEN ads
                     ELSE IF impl = "db" THEN SqlUpsert(ads, a.key, a.it, a.now)
                     ELSE IF a.exists THEN SqlUpdate(ads, a.key, a.it, a.now)
                     ELSE SqlInsert(ads, a.key, a.it, a.now)
           /\ pc' = [pc EXCEPT ![t] = IF raises THEN "idle" ELSE "hist"]
           /\ lock' = IF raises /\ lock = t THEN 0 ELSE lock
           /\ failed' = failed + (IF raises THEN 1 ELSE 0)
           /\ arg' = IF raises THEN [arg EXCEPT ![t] = NoArg] ELSE arg
           /\ lastCall' = IF raises THEN lastCall
                          ELSE [lastCall EXCEPT ![a.key] = <<[it |-> a.it, now |-> a.now]>>]
    /\ UNCHANGED <<impl, hist, clock, ret, nCalls, issued, expHist, raced, rd>>
    /\ UNCHANGED <<v3Vars, totVars, cycVars, pureVars>>

\* The price_history statement, then the end of the with block: the lock is
\* released and the call returns.
UpsertHist(t) ==
    /\ pc[t] = "hist"
    /\ LET a == arg[t] IN
       /\ hist' = HistAppend(hist, a.key, a.it, a.now)
       /\ expHist' =
            IF Priced(a.it)
            THEN Append(expHist,
                        [key |-> a.key, seen_at |-> a.now,
                         price |-> IF Known(a.it.total_eur) THEN Val(a.it.total_eur)
                                   ELSE Val(a.it.price_eur)])
            ELSE expHist
    /\ lock' = IF lock = t THEN 0 ELSE lock
    /\ pc' = [pc EXCEPT ![t] = "idle"]
    /\ arg' = [arg EXCEPT ![t] = NoArg]
    /\ UNCHANGED <<impl, ads, clock, ret, nCalls, issued, lastCall, failed, raced, rd>>
    /\ UNCHANGED <<v3Vars, totVars, cycVars, pureVars>>

\* get_price_history(key, limit) of src/db.py, called by the thread that
\* shows the trend: with self.lock, self.conn: the query; then
\* rows.reverse(). The lock is taken and released within the step.
GetPriceHistory(k, limit) ==
    /\ impl = "db"
    /\ ret = NoRet
    /\ rd = NoRead
    /\ LockFree
    /\ \E rows \in GetPriceHistoryResults(hist, k, limit) :
          ret' = [n |-> 1, key |-> k, limit |-> limit, rows |-> rows,
                  of |-> Cardinality(KeyIdx(hist, k)),
                  torn |-> Torn(ads, hist, k)]
    /\ UNCHANGED <<impl, ads, hist, lock, clock, pc, arg, nCalls, issued, expHist,
                   lastCall, failed, raced, rd>>
    /\ UNCHANGED <<v3Vars, totVars, cycVars, pureVars>>

\* The caller has used the list.
GetReturn ==
    /\ ret # NoRet
    /\ ret' = NoRet
    /\ UNCHANGED <<impl, ads, hist, lock, clock, pc, arg, nCalls, issued, expHist,
                   lastCall, failed, raced, rd>>
    /\ UNCHANGED <<v3Vars, totVars, cycVars, pureVars>>

\* read_history(db_path, key): a connection of its own, which Store.lock
\* does not guard; it reads what the file holds.
ReadHistory(k) ==
    /\ rd = NoRead
    /\ ret = NoRet
    /\ \E rows \in ReadHistoryResults(hist, k) :
          rd' = [n |-> 1, key |-> k, rows |-> rows, torn |-> Torn(ads, hist, k)]
    /\ UNCHANGED <<impl, ads, hist, lock, clock, pc, arg, ret, nCalls, issued,
                   expHist, lastCall, failed, raced>>
    /\ UNCHANGED <<v3Vars, totVars, cycVars, pureVars>>

\* The script has printed the history and ends.
ReadDone ==
    /\ rd # NoRead
    /\ rd' = NoRead
    /\ UNCHANGED <<impl, ads, hist, lock, clock, pc, arg, ret, nCalls, issued,
                   expHist, lastCall, failed, raced>>
    /\ UNCHANGED <<v3Vars, totVars, cycVars, pureVars>>

NextStore ==
    \/ Tick
    \/ \E t \in Threads, k \in Keys, it \in Items : UpsertCall(t, k, it)
    \/ \E t \in Threads : UpsertAcquire(t)
    \/ \E t \in Threads : UpsertWrite(t)
    \/ \E t \in Threads : UpsertHist(t)
    \/ \E k \in Keys, limit \in 0..MaxLimit : GetPriceHistory(k, limit)
    \/ GetReturn
    \/ \E k \in Keys : ReadHistory(k)
    \/ ReadDone

SpecStore == Init /\ [][NextStore]_vars

\* The call of thread t ends between its two statements: the price_history
\* statement raises (disk full, I/O error) or the process stops there. The
\* connection is in autocommit mode, so the ads statement is in the file
\* and the rollback of the with statement (src/db.py) finds no open
\* transaction; src/Untitled-1.py never reaches its commit(). The lock is
\* released.
UpsertInterrupted(t) ==
    /\ pc[t] = "hist"
    /\ lock' = IF lock = t THEN 0 ELSE lock
    /\ pc' = [pc EXCEPT ![t] = "idle"]
    /\ arg' = [arg EXCEPT ![t] = NoArg]
    /\ failed' = failed + 1
    /\ UNCHANGED <<impl, ads, hist, clock, ret, nCalls, issued, expHist, lastCall,
                   raced, rd>>
    /\ UNCHANGED <<v3Vars, totVars, cycVars, pureVars>>

NextStoreFail ==
    \/ Tick
    \/ \E t \in Threads, k \in Keys, it \in Items : UpsertCall(t, k, it)
    \/ \E t \in Threads : UpsertAcquire(t)
    \/ \E t \in Threads : UpsertWrite(t)
    \/ \E t \in Threads : UpsertHist(t)
    \/ \E t \in Threads : UpsertInterrupted(t)

\* The Store with calls that may fail between their two statements.
SpecStoreFail == Init /\ [][NextStoreFail]_vars

\* ------------------------------------------------------ v3 revision ----
\* total = (price_eur or 0) + (ship_eur or 0);
\* total_eur = total if (price_eur is not None or ship_eur is not None) else None
V3Total(price, ship) ==
    IF Known(price) \/ Known(ship)
    THEN Some((IF Known(price) THEN Val(price) ELSE 0)
              + (IF Known(ship) THEN Val(ship) ELSE 0))
    ELSE None

\* The fields of Ad that upsert_ad and the worker read.
V3Ad(id, price, ship) ==
    [ad_id |-> id, price_eur |-> price, ship_eur |-> ship,
     total_eur |-> V3Total(price, ship)]

\* A SELECT that reads the row of another ad.
V3SelectMutant(tbl, id) == tbl[CHOOSE k \in Keys : k # id]

\* SELECT last_price_numeric FROM ads WHERE ad_id=? ; fetchone()
V3Select(tbl, id) == tbl[id]

\* An UPDATE that writes the ad's price even when it has none.
V3StoredPriceMutant(ad, old_price) == ad.price_eur

\* UPDATE ads SET ... last_price_numeric = ad.price_eur if it is not None
\* else old_price
V3StoredPrice(ad, old_price) ==
    IF Known(ad.price_eur) THEN ad.price_eur ELSE old_price

\* upsert_ad(conn, ad): the tables after the call and the tuple it returns.
V3UpsertAd(tbl, h, ad) ==
    LET row == V3Select(tbl, ad.ad_id)
        is_new == row = None
        old_price == IF is_new THEN None ELSE Val(row)
    IN  [ads |-> [tbl EXCEPT ![ad.ad_id] =
                     Some(IF is_new THEN ad.price_eur ELSE V3StoredPrice(ad, old_price))],
         hist |-> Append(h, [ad_id |-> ad.ad_id, price_numeric |-> ad.price_eur]),
         is_new |-> is_new, old_price |-> old_price, new_price |-> ad.price_eur]

\* Flags that call any change of price a drop.
V3FlagsMutant(is_new, old_price, new_price) ==
    IF is_new THEN {"NEW"}
    ELSE IF Known(new_price) /\ Known(old_price) /\ Val(new_price) # Val(old_price)
         THEN {"DROP"}
    ELSE {}

\* if is_new: NEW; elif new_price is not None and old_price is not None
\* and new_price < old_price: DROP
V3Flags(is_new, old_price, new_price) ==
    IF is_new THEN {"NEW"}
    ELSE IF Known(new_price) /\ Known(old_price) /\ Val(new_price) < Val(old_price)
         THEN {"DROP"}
    ELSE {}

\* DEFAULT_THRESHOLD, the start value of threshold_var.
DEFAULT_THRESHOLD == 300

\* if ad.total_eur is not None and ad.total_eur <= thr: the deal flag.
V3DealFlag(ad) ==
    IF Known(ad.total_eur) /\ Val(ad.total_eur) <= DEFAULT_THRESHOLD
    THEN {"DEAL"} ELSE {}

\* One pass of a worker loop: upsert_ad, the flags, rows.append.
V3Handle(ad, srcFlags) ==
    LET r == V3UpsertAd(v3ads, v3hist, ad) IN
    /\ Len(v3log) < MaxObs
    /\ v3ads' = r.ads
    /\ v3hist' = r.hist
    /\ v3log' = Append(v3log,
                    [ad |-> ad, is_new |-> r.is_new, old_price |-> r.old_price,
                     new_price |-> r.new_price,
                     flags |-> srcFlags \cup V3Flags(r.is_new, r.old_price, r.new_price)
                               \cup V3DealFlag(ad)])
    /\ UNCHANGED <<storeVars, totVars, cycVars, pureVars>>

\* The Marktplaats loop of worker(): ad = mp_parse_ad(url), then the pass.
V3MpAd(id, price, ship) == V3Handle(V3Ad(id, price, ship), {})

\* The eBay loop: the ads of ebay_parse_search, flagged as eBay's.
V3EbayAd(id, price, ship) == V3Handle(V3Ad(id, price, ship), {"EBAY"})

NextV3 ==
    \/ \E id \in MpKeys, price \in OptPrices, ship \in OptShips : V3MpAd(id, price, ship)
    \/ \E id \in EbayKeys, price \in OptPrices, ship \in OptShips : V3EbayAd(id, price, ship)

SpecV3 == InitStoreAside /\ [][NextV3]_vars

\* ------------------------------------------------------------ totals ----
\* x or 0
OrZero(x) == IF Known(x) THEN Val(x) ELSE 0

\* compute_total of src/Untitled-1.py: None when both are None, else
\* round((price_eur or 0.0) + (ship_eur or 0.0), 2); amounts are whole euros
\* here, which round leaves as they are.
compute_total(price_eur, ship_eur) ==
    IF ~Known(price_eur) /\ ~Known(ship_eur) THEN None
    ELSE Some(OrZero(price_eur) + OrZero(ship_eur))

\* v31 mp_parse_ad: total = (price or 0) + (ship or 0);
\* total_eur = total if (price is not None or ship is not None) else None
V31RowTotal(price, ship) ==
    IF Known(price) \/ Known(ship) THEN Some(OrZero(price) + OrZero(ship)) ELSE None

\* v31 App._upsert_row: total = row.total_eur if row.total_eur is not None
\* else ((row.price_eur or 0) + (row.ship_eur or 0)), passed to upsert_row as
\* last_total.
V31StoredTotal(row) ==
    IF Known(row.total_eur) THEN row.total_eur
    ELSE Some(OrZero(row.price_eur) + OrZero(row.ship_eur))

\* v32 mp_parse_ad: ship = None; total = (price or 0) + (ship or 0).
V32Total(price, ship) == Some(OrZero(price) + OrZero(ship))

\* src/Untitled-1.py, parse_mp_ad and parse_ebay_results: the Item built
\* from what the page shows goes to the store and to the queue.
MainItem(price, ship) ==
    /\ Len(totRecs) < MaxRecs
    /\ totRecs' = Append(totRecs, [rev |-> "main", price |-> price, ship |-> ship,
                                   total |-> compute_total(price, ship)])
    /\ UNCHANGED <<storeVars, v3Vars, cycVars, pureVars>>

\* v31: the Row of mp_parse_ad goes through _upsert_row into table ads.
V31UpsertRow(price, ship) ==
    /\ Len(totRecs) < MaxRecs
    /\ LET row == [price_eur |-> price, ship_eur |-> ship,
                   total_eur |-> V31RowTotal(price, ship)]
       IN  totRecs' = Append(totRecs, [rev |-> "v31", price |-> price, ship |-> ship,
                                       total |-> V31StoredTotal(row)])
    /\ UNCHANGED <<storeVars, v3Vars, cycVars, pureVars>>

\* v32: the dict of mp_parse_ad goes to the queue and into the table shown.
V32MpParseAd(price) ==
    /\ Len(totRecs) < MaxRecs
    /\ totRecs' = Append(totRecs, [rev |-> "v32", price |-> price, ship |-> None,
                                   total |-> V32Total(price, None)])
    /\ UNCHANGED <<storeVars, v3Vars, cycVars, pureVars>>

NextTotal ==
    \/ \E price \in OptPrices, ship \in OptShips : MainItem(price, ship)
    \/ \E price \in OptPrices, ship \in OptShips : V31UpsertRow(price, ship)
    \/ \E price \in OptPrices : V32MpParseAd(price)

SpecTotal == InitStoreAside /\ [][NextTotal]_vars

\* -------------------------------------------------------- scan cycle ----
Workers == {1, 2}

MSG_STATUS == [type |-> "STATUS"]
MSG_ERROR == [type |-> "ERROR"]
\* qout.put({"type": MSG_UPSERT, "item": it}); the item is named by its
\* source and its place in what discovery returned.
MSG_UPSERT(cand) == [type |-> "UPSERT", item |-> cand]
\* finally: qout.put({"type": MSG_DONE, "text": "Fetch complete"})
MSG_DONE == [type |-> "DONE", text |-> "Fetch complete"]

\* The thread in slot w has not ended.
Alive(w) == workers[w].pc # "none"

At(w, p) == workers[w].pc = p

\* threading.Thread(target=worker_fetch, ...).start(): the thread takes a
\* free slot and stands before its first statement.
NewWorker == [pc |-> "search", i |-> 0, n |-> 0, ei |-> 0, en |-> 0, it |-> "none"]

\* A fetch_now that does not look at fetch_running.
RunningMutant == FALSE

\* if self.fetch_running: (fetch_now)
Running == fetch_running

\* fetch_now(): the log line and return when a cycle runs; else the event is
\* cleared, the flag set and the thread started.
fetch_now ==
    IF Running
    THEN /\ nAlready' = nAlready + 1
         /\ UNCHANGED <<fetch_running, stop_event, qout, workers, lastDone,
                        emitted, histFor, stopAfter, shown>>
    ELSE /\ \E w \in Workers :
              /\ ~Alive(w)
              /\ \A u \in Workers : u < w => Alive(u)
              /\ workers' = [workers EXCEPT ![w] = NewWorker]
         /\ stop_event' = FALSE
         /\ fetch_running' = TRUE
         /\ emitted' = 0
         /\ histFor' = {}
         /\ stopAfter' = None
         /\ shown' = <<>>
         /\ UNCHANGED <<qout, nAlready, lastDone>>

\* The Fetch Now button.
FetchNow ==
    /\ fetch_running => rejNow + rejAuto < MaxReq
    /\ fetch_now
    /\ rejNow' = rejNow + (IF fetch_running THEN 1 ELSE 0)
    /\ UNCHANGED <<rejAuto, storeVars, v3Vars, totVars, pureVars>>

\* _auto_fetch_loop: if not self.fetch_running: self.fetch_now(); the timer
\* is set again either way.
AutoFetchTick ==
    /\ fetch_running => rejNow + rejAuto < MaxReq
    /\ IF ~fetch_running
       THEN fetch_now
       ELSE UNCHANGED <<fetch_running, stop_event, qout, workers, nAlready,
                        lastDone, emitted, histFor, stopAfter, shown>>
    /\ rejAuto' = rejAuto + (IF fetch_running THEN 1 ELSE 0)
    /\ UNCHANGED <<rejNow, storeVars, v3Vars, totVars, pureVars>>

\* The candidate k such that the thread in slot w has put the record of
\* candidate k and has not started the fetch of candidate k+1, which
\* exists: 0 when there is none.
AfterRecord(w) ==
    IF At(w, "mp_top") /\ workers[w].i < workers[w].n THEN workers[w].i
    ELSE IF At(w, "mp_get") THEN workers[w].i - 1
    ELSE 0

\* stop_fetch(): nothing when no cycle runs, else stop_event.set().
StopFetch ==
    /\ fetch_running
    /\ stop_event' = TRUE
    /\ stopAfter' =
          IF stop_event THEN stopAfter
          ELSE IF \E w \in Workers : AfterRecord(w) > 0
               THEN Some(AfterRecord(CHOOSE w \in Workers : AfterRecord(w) > 0))
          ELSE None
    /\ UNCHANGED <<fetch_running, qout, workers, nAlready, lastDone, emitted,
                   histFor, rejNow, rejAuto, shown, storeVars, v3Vars, totVars, pureVars>>

HasDone(q) == \E j \in 1..Len(q) : q[j].type = "DONE"

IsUpsert(m) == m.type = "UPSERT"

\* A consumer that takes the newest message first.
HandledMutant(q) ==
    LET r == SelectSeq(q, IsUpsert)
    IN  [j \in 1..Len(r) |-> r[Len(r) + 1 - j].item]

\* while True: msg = self.queue.get_nowait(); self._handle_message(msg):
\* the items of the MSG_UPSERT messages of q, in the order they are handled.
Handled(q) ==
    LET r == SelectSeq(q, IsUpsert)
    IN  [j \in 1..Len(r) |-> r[j].item]

\* _poll_queue: every message in the queue goes through _handle_message;
\* MSG_UPSERT puts the item into the table, MSG_DONE sets fetch_running = False.
PollQueue ==
    /\ qout # <<>>
    /\ qout' = <<>>
    /\ shown' = shown \o Handled(qout)
    /\ fetch_running' = IF HasDone(qout) THEN FALSE ELSE fetch_running
    /\ lastDone' = IF HasDone(qout) THEN Some(MSG_DONE.text) ELSE lastDone
    /\ UNCHANGED <<stop_event, workers, nAlready, emitted, histFor, stopAfter,
                   rejNow, rejAuto, storeVars, v3Vars, totVars, pureVars>>

\* --- worker_fetch, one thread per slot ---
uiSide == <<fetch_running, nAlready, lastDone, rejNow, rejAuto, shown>>

\* What a page fetched by polite_get gives the parser: a priced listing, a
\* listing without price, or no page (a status other than 200).
Pages == {"priced", "unpriced", "failed"}

\* polite_get: a loop over RETRY_BACKOFF that leaves at once when the event
\* is set and then returns DummyResponse(status_code=0): no page.
PoliteGetCounts(max) == IF stop_event THEN {0} ELSE 0..max

PoliteGetPages == IF stop_event THEN {"failed"} ELSE Pages

\* r = polite_get(session, SEARCH_MP, stop_event); urls = discover_mp_urls;
\* the status message.
WSearchMp(w) ==
    /\ At(w, "search")
    /\ \E n \in PoliteGetCounts(MaxUrls) :
          workers' = [workers EXCEPT ![w].n = n, ![w].pc = "mp_top"]
    /\ qout' = Append(qout, MSG_STATUS)
    /\ UNCHANGED <<uiSide, stop_event, emitted, histFor, stopAfter,
                   storeVars, v3Vars, totVars, pureVars>>

\* for i, url in enumerate(urls, 1): if stop_event.is_set(): break
WMpTop(w) ==
    /\ At(w, "mp_top")
    /\ workers' =
          IF workers[w].i = workers[w].n \/ stop_event
          THEN [workers EXCEPT ![w].pc = "ebay_gate"]
          ELSE [workers EXCEPT ![w].i = @ + 1, ![w].pc = "mp_get"]
    /\ UNCHANGED <<uiSide, stop_event, qout, emitted, histFor, stopAfter,
                   storeVars, v3Vars, totVars, pureVars>>

\* it = parse_mp_ad(session, url, stop_event): polite_get, then the Item;
\* without a page its title is "(HTTP <status>)" and it has no price.
WMpParse(w) ==
    /\ At(w, "mp_get")
    /\ \E page \in PoliteGetPages :
          workers' = [workers EXCEPT ![w].it = page, ![w].pc = "mp_store"]
    /\ UNCHANGED <<uiSide, stop_event, qout, emitted, histFor, stopAfter,
                   storeVars, v3Vars, totVars, pureVars>>

\* How the try block around upsert_item / get_price_history / sparkline
\* ends: no exception, upsert_item raised, or a later call raised.
StoreOutcomes == {"ok", "upsert_raised", "read_raised"}

\* The candidates with a history entry after the try block: upsert_item
\* appends one when the item has a price.
HistAfter(h, cand, page, outcome) ==
    IF page = "priced" /\ outcome # "upsert_raised" THEN h \cup {cand} ELSE h

\* A worker that swallows the exception of a store call.
PutsAfterMutant(q, outcome, tail) == q \o tail

\* The messages put after the try block of an item.
PutsAfter(q, outcome, tail) ==
    (IF outcome = "ok" THEN q ELSE Append(q, MSG_ERROR)) \o tail

\* The rest of the Marktplaats pass when the try block ends as outcome.
WMpStoreWith(w, outcome) ==
    /\ At(w, "mp_store")
    /\ histFor' = HistAfter(histFor, <<"MP", workers[w].i>>, workers[w].it, outcome)
    /\ qout' = PutsAfter(qout, outcome, <<MSG_UPSERT(<<"MP", workers[w].i>>), MSG_STATUS>>)
    /\ emitted' = emitted + 1
    /\ workers' = [workers EXCEPT ![w].it = "none", ![w].pc = "mp_top"]
    /\ UNCHANGED <<uiSide, stop_event, stopAfter, storeVars, v3Vars, totVars, pureVars>>

\* The rest of the Marktplaats pass: the try block, MSG_UPSERT, MSG_STATUS.
WMpStore(w) == \E outcome \in StoreOutcomes : WMpStoreWith(w, outcome)

\* if not stop_event.is_set(): the eBay part
WEbayGate(w) ==
    /\ At(w, "ebay_gate")
    /\ workers' = [workers EXCEPT ![w].pc = IF stop_event THEN "done" ELSE "ebay_search"]
    /\ UNCHANGED <<uiSide, stop_event, qout, emitted, histFor, stopAfter,
                   storeVars, v3Vars, totVars, pureVars>>

\* r2 = polite_get(session, SEARCH_EBAY, stop_event); parse_ebay_results;
\* the status message.
WEbaySearch(w) ==
    /\ At(w, "ebay_search")
    /\ \E m \in PoliteGetCounts(MaxEbay) :
          workers' = [workers EXCEPT ![w].en = m, ![w].pc = "ebay_top"]
    /\ qout' = Append(qout, MSG_STATUS)
    /\ UNCHANGED <<uiSide, stop_event, emitted, histFor, stopAfter,
                   storeVars, v3Vars, totVars, pureVars>>

\* for it in ebay_items: if stop_event.is_set(): break ; after the loop the
\* status message "eBay listings added".
WEbayTop(w) ==
    /\ At(w, "ebay_top")
    /\ IF workers[w].ei = workers[w].en \/ stop_event
       THEN /\ workers' = [workers EXCEPT ![w].pc = "done"]
            /\ qout' = Append(qout, MSG_STATUS)
       ELSE /\ workers' = [workers EXCEPT ![w].ei = @ + 1, ![w].pc = "ebay_store"]
            /\ qout' = qout
    /\ UNCHANGED <<uiSide, stop_event, emitted, histFor, stopAfter,
                   storeVars, v3Vars, totVars, pureVars>>

\* The eBay pass over an item when the try block ends as outcome.
WEbayStoreWith(w, page, outcome) ==
    /\ At(w, "ebay_store")
    /\ histFor' = HistAfter(histFor, <<"EBAY", workers[w].ei>>, page, outcome)
    /\ qout' = PutsAfter(qout, outcome, <<MSG_UPSERT(<<"EBAY", workers[w].ei>>)>>)
    /\ emitted' = emitted + 1
    /\ workers' = [workers EXCEPT ![w].pc = "ebay_top"]
    /\ UNCHANGED <<uiSide, stop_event, stopAfter, storeVars, v3Vars, totVars, pureVars>>

\* The eBay pass: the item of the results page, the try block, MSG_UPSERT.
WEbayStore(w) ==
    \E page \in {"priced", "unpriced"}, outcome \in StoreOutcomes :
        WEbayStoreWith(w, page, outcome)

\* A worker without the finally clause: the exception ends the thread.
WRaiseMutant(w) ==
    /\ workers[w].pc \in {"search", "mp_get", "ebay_search"}
    /\ workers' = [workers EXCEPT ![w] = NoWorker]
    /\ qout' = Append(qout, MSG_ERROR)
    /\ UNCHANGED <<uiSide, stop_event, emitted, histFor, stopAfter,
                   storeVars, v3Vars, totVars, pureVars>>

\* except Exception as e: a parser raised; the message "Worker error".
WRaise(w) ==
    /\ workers[w].pc \in {"search", "mp_get", "ebay_search"}
    /\ workers' = [workers EXCEPT ![w].pc = "done"]
    /\ qout' = Append(qout, MSG_ERROR)
    /\ UNCHANGED <<uiSide, stop_event, emitted, histFor, stopAfter,
                   storeVars, v3Vars, totVars, pureVars>>

\* finally: qout.put(MSG_DONE); the last statement of the thread.
WDone(w) ==
    /\ At(w, "done")
    /\ workers' = [workers EXCEPT ![w] = NoWorker]
    /\ qout' = Append(qout, MSG_DONE)
    /\ UNCHANGED <<uiSide, stop_event, emitted, histFor, stopAfter,
                   storeVars, v3Vars, totVars, pureVars>>

NextCycle ==
    \/ FetchNow
    \/ AutoFetchTick
    \/ StopFetch
    \/ PollQueue
    \/ \E w \in Workers : WSearchMp(w)
    \/ \E w \in Workers : WMpTop(w)
    \/ \E w \in Workers : WMpParse(w)
    \/ \E w \in Workers : WMpStore(w)
    \/ \E w \in Workers : WEbayGate(w)
    \/ \E w \in Workers : WEbaySearch(w)
    \/ \E w \in Workers : WEbayTop(w)
    \/ \E w \in Workers : WEbayStore(w)
    \/ \E w \in Workers : WRaise(w)
    \/ \E w \in Workers : WDone(w)

SpecCycle == InitStoreAside /\ [][NextCycle]_vars

\* The steps of the thread in slot w.
WStep(w) ==
    \/ WSearchMp(w) \/ WMpTop(w) \/ WMpParse(w) \/ WMpStore(w)
    \/ WEbayGate(w) \/ WEbaySearch(w) \/ WEbayTop(w) \/ WEbayStore(w)
    \/ WRaise(w) \/ WDone(w)

\* A started thread keeps running (every request has a timeout, every loop
\* a finite list), and after(200, self._poll_queue) keeps the polling going;
\* the user and the timer owe nothing.
FairCycle ==
    /\ WF_vars(PollQueue)
    /\ \A w \in Workers : WF_vars(WStep(w))

SpecCycleFair == InitStoreAside /\ [][NextCycle]_vars /\ FairCycle

\* ------------------------------------------------------ Listing key ----
\* hash(url) of a str: a function of the text and of the seed of the process,
\* of either sign.
Hash(seed, u) == ((u.no * 5 + seed * 3) % 7) - 3

Abs(n) == IF n < 0 THEN 0 - n ELSE n

\* A key is the text before the number and the number.
\* Untitled-1.py parse_mp_ad: "MP:" + (m<id> or f"m{abs(hash(url))%10**10}").
\* The remainder keeps the last ten digits; the hash values here have one
\* digit, which it leaves as they are.
MainKey(seed, u) ==
    IF Known(u.id) THEN <<"MP:m", Val(u.id)>>
                   ELSE <<"MP:m", Abs(Hash(seed, u))>>

\* v3 mp_parse_ad: f"MP:{mp_id}" if mp_id else f"MP:{abs(hash(url))}".
V3Key(seed, u) ==
    IF Known(u.id) THEN <<"MP:", Val(u.id)>>
                   ELSE <<"MP:", Abs(Hash(seed, u))>>

\* v32 mp_parse_ad: "key": f"MP:{hash(url)}".
V32Key(seed, u) == <<"MP:", Hash(seed, u)>>

KeyOf(ver, seed, u) ==
    CASE ver = "main" -> MainKey(seed, u)
      [] ver = "v3"   -> V3Key(seed, u)
      [] ver = "v32"  -> V32Key(seed, u)

\* The program is started: a new interpreter, the same database file.
StartProcess(ver, seed) ==
    /\ kruns < MaxRuns
    /\ kver \in {"none", ver}
    /\ kver' = ver
    /\ hashSeed' = Some(seed)
    /\ kruns' = kruns + 1
    /\ UNCHANGED <<kads, keysOf, kfresh>>
    /\ UNCHANGED <<storeVars, v3Vars, totVars, cycVars, netVars, sparkVars, moneyVars, discVars, refetchVars, v32Vars>>

\* One listing is parsed and stored under its key: a key that has no row in
\* ads is inserted as a listing first seen now.
ParseMpAdKey(u) ==
    /\ Known(hashSeed)
    /\ LET key == KeyOf(kver, Val(hashSeed), u)
       IN  /\ keysOf' = [keysOf EXCEPT ![u] = @ \cup {key}]
           /\ kfresh' = IF keysOf[u] # {} /\ key \notin kads
                         THEN kfresh \cup {u} ELSE kfresh
           /\ kads' = kads \cup {key}
    /\ UNCHANGED <<hashSeed, kver, kruns>>
    /\ UNCHANGED <<storeVars, v3Vars, totVars, cycVars, netVars, sparkVars, moneyVars, discVars, refetchVars, v32Vars>>

NextKey ==
    \/ \E ver \in Versions, seed \in Seeds : StartProcess(ver, seed)
    \/ \E u \in Urls : ParseMpAdKey(u)

SpecKey == InitStoreAside /\ [][NextKey]_vars

\* ----------------------------------------------------- HTTP helpers ----
\* RETRY_BACKOFF = [0.0, 1.0, 2.5], in tenths of a second.
RETRY_BACKOFF == <<0, 10, 25>>

\* Retry(total=3, ...) of net.make_session.
RetryTotal == 3

\* status_forcelist=[429, 500, 502, 503, 504]
StatusForcelist == {429, 500, 502, 503, 504}

\* What one GET request may meet: an exception of requests, or a response.
Outcomes ==
    {[raises |-> "Timeout", status_code |-> 0],
     [raises |-> "ConnectionError", status_code |-> 0],
     [raises |-> "", status_code |-> 200],
     [raises |-> "", status_code |-> 404],
     [raises |-> "", status_code |-> 503]}

Raised(o) == o.raises # ""

Response(o) == [status_code |-> o.status_code, text |-> "html", content |-> "bytes"]

\* DummyResponse(url=url, status_code=0, text="", content=b"")
DummyResponse == [status_code |-> 0, text |-> "", content |-> ""]

NetVersions == {"main", "net"}

NetOps == {"polite_get", "fetch_bytes"}

\* stop_fetch: self.stop_event.set(), at any moment of a call.
NetStop ==
    /\ ~nstop
    /\ nstop' = TRUE
    /\ UNCHANGED <<nver, nop, npc, ni, ngets, nretries, nwire, nlate, ngot, nret, ncalls>>
    /\ UNCHANGED <<storeVars, v3Vars, totVars, cycVars, keyVars, sparkVars, moneyVars, discVars, refetchVars, v32Vars>>

\* The worker calls polite_get(session, url, stop_event) or
\* fetch_bytes(session, url, stop_event); url may be empty.
NetCall(ver, op, url) ==
    /\ npc = "idle"
    /\ ncalls < MaxNetCalls
    /\ ncalls' = ncalls + 1
    /\ nver' = ver
    /\ nop' = op
    /\ ni' = 1
    /\ ngets' = 0
    /\ nretries' = 0
    /\ nwire' = 0
    /\ nlate' = FALSE
    /\ ngot' = None
    /\ IF op = "fetch_bytes" /\ url = ""
       THEN npc' = "returned" /\ nret' = [bytes |-> None]
       ELSE npc' = "head" /\ nret' = None
    /\ UNCHANGED nstop
    /\ UNCHANGED <<storeVars, v3Vars, totVars, cycVars, keyVars, sparkVars, moneyVars, discVars, refetchVars, v32Vars>>

\* An except clause that lets the exception through.
OnExceptionMutant(ver, op) == "raise"

\* What the helper does when session.get raises: Untitled-1.py polite_get
\* goes on with the next attempt, net.polite_get returns the DummyResponse,
\* fetch_bytes returns None.
OnException(ver, op) ==
    IF op = "fetch_bytes" THEN "none"
    ELSE IF ver = "main" THEN "continue" ELSE "dummy"

\* urllib3 sends the request again: after an exception or a status of the
\* forcelist, while resends are left.
Resent(ver, o) ==
    ver = "net" /\ (Raised(o) \/ o.status_code \in StatusForcelist)

\* session.get has come back to the helper with outcome o, an exception or
\* a response: the rest of the helper.
Handed(o) ==
    IF Raised(o)
    THEN /\ ngot' = ngot
         /\ CASE OnException(nver, nop) = "continue" ->
                    npc' = "head" /\ ni' = ni + 1 /\ nret' = nret
              [] OnException(nver, nop) = "dummy" ->
                    npc' = "returned" /\ ni' = ni /\ nret' = DummyResponse
              [] OnException(nver, nop) = "none" ->
                    npc' = "returned" /\ ni' = ni /\ nret' = [bytes |-> None]
              [] OTHER ->
                    npc' = "raised" /\ ni' = ni /\ nret' = nret
    ELSE /\ ngot' = Some(Response(o))
         /\ npc' = "returned"
         /\ ni' = ni
         /\ nret' = IF nop = "polite_get" THEN Response(o)
                    ELSE IF o.status_code = 200
                         THEN [bytes |-> Some(Response(o).content)]
                         ELSE [bytes |-> None]

\* session.get(url, timeout=REQUEST_TIMEOUT): the request goes out and meets
\* outcome o; the adapter of net.make_session may send it again.
SessionGet(o) ==
    /\ ngets' = ngets + 1
    /\ nwire' = nwire + 1
    /\ nlate' = (nlate \/ nstop)
    /\ nretries' = 0
    /\ IF Resent(nver, o) /\ RetryTotal > 0
       THEN npc' = "retry" /\ UNCHANGED <<ni, ngot, nret>>
       ELSE Handed(o)

\* The head of the loop of Untitled-1.py polite_get, and the first lines of
\* net.polite_get and of both fetch_bytes: the stop signal is read, then
\* either the backoff sleep begins or the request goes out.
HelperHead(o) ==
    /\ npc = "head"
    /\ IF nop = "polite_get" /\ nver = "main" /\ ni > Len(RETRY_BACKOFF)
       THEN /\ npc' = "returned" /\ nret' = DummyResponse
            /\ UNCHANGED <<ni, ngets, nretries, nwire, nlate, ngot>>
       ELSE IF nstop
       THEN /\ npc' = "returned"
            /\ nret' = IF nop = "polite_get" THEN DummyResponse ELSE [bytes |-> None]
            /\ UNCHANGED <<ni, ngets, nretries, nwire, nlate, ngot>>
       ELSE IF nop = "polite_get" /\ nver = "main" /\ RETRY_BACKOFF[ni] > 0
       THEN /\ npc' = "sleep"
            /\ UNCHANGED <<ni, ngets, nretries, nwire, nlate, ngot, nret>>
       ELSE SessionGet(o)
    /\ UNCHANGED <<nver, nop, nstop, ncalls>>
    /\ UNCHANGED <<storeVars, v3Vars, totVars, cycVars, keyVars, sparkVars, moneyVars, discVars, refetchVars, v32Vars>>

\* time.sleep(back) is over: the request goes out.
AfterBackoff(o) ==
    /\ npc = "sleep"
    /\ SessionGet(o)
    /\ UNCHANGED <<nver, nop, nstop, ncalls>>
    /\ UNCHANGED <<storeVars, v3Vars, totVars, cycVars, keyVars, sparkVars, moneyVars, discVars, refetchVars, v32Vars>>

\* The adapter sends the request again; when no resend is left the outcome
\* reaches the helper as an exception (RetryError, ConnectionError).
AdapterRetry(o) ==
    /\ npc = "retry"
    /\ nretries' = nretries + 1
    /\ nwire' = nwire + 1
    /\ nlate' = (nlate \/ nstop)
    /\ IF Resent(nver, o)
       THEN IF nretries + 1 < RetryTotal
            THEN UNCHANGED <<npc, ni, ngot, nret>>
            ELSE Handed([raises |-> "RetryError", status_code |-> 0])
       ELSE Handed(o)
    /\ UNCHANGED <<nver, nop, nstop, ngets, ncalls>>
    /\ UNCHANGED <<storeVars, v3Vars, totVars, cycVars, keyVars, sparkVars, moneyVars, discVars, refetchVars, v32Vars>>

\* The caller has the result and goes on.
NetReturn ==
    /\ npc = "returned"
    /\ npc' = "idle"
    /\ UNCHANGED <<nver, nop, nstop, ni, ngets, nretries, nwire, nlate, ngot, nret, ncalls>>
    /\ UNCHANGED <<storeVars, v3Vars, totVars, cycVars, keyVars, sparkVars, moneyVars, discVars, refetchVars, v32Vars>>

NextNet ==
    \/ NetStop
    \/ \E ver \in NetVersions, op \in NetOps, url \in {"", "u"} : NetCall(ver, op, url)
    \/ \E o \in Outcomes : HelperHead(o)
    \/ \E o \in Outcomes : AfterBackoff(o)
    \/ \E o \in Outcomes : AdapterRetry(o)
    \/ NetReturn

SpecNet == InitStoreAside /\ [][NextNet]_vars

\* -------------------------------------------------------- Sparkline ----
\* SPARK_BARS / BLOCKS: seven bars, lowest first.
BLOCKS == <<"bar1", "bar2", "bar3", "bar4", "bar5", "bar6", "bar7">>

\* The width Untitled-1.py has built in: values[-16:], min(len(values), 16).
SparkWindow == 16

\* Price histories: n values that are all the same, that rise, that go up
\* and down, that end in a peak, or that begin low and go on between two
\* higher values.
Shapes == {"flat", "ramp", "saw", "peak", "step"}

History(shape, n) ==
    [i \in 1..n |->
        CASE shape = "flat" -> 5
          [] shape = "ramp" -> i
          [] shape = "saw"  -> i % 3
          [] shape = "peak" -> IF i = n THEN 9 ELSE 1
          [] shape = "step" -> IF i = 1 THEN 0 ELSE 3 + (i % 2)]

Widths == {1, 2, 3, 10, 14}

SeqMin(v) == CHOOSE x \in {v[i] : i \in 1..Len(v)} : \A j \in 1..Len(v) : x <= v[j]

SeqMax(v) == CHOOSE x \in {v[i] : i \in 1..Len(v)} : \A j \in 1..Len(v) : x >= v[j]

\* int((v - lo) / (hi - lo) * (len(BLOCKS) - 1)), on whole numbers; the bar
\* of place idx of the palette, which Python counts from 0.
Bar(v, lo, hi) == BLOCKS[(((v - lo) * (Len(BLOCKS) - 1)) \div (hi - lo)) + 1]

Repeat(c, n) == [i \in 1..n |-> c]

\* Untitled-1.py sparkline(values).
MainSparkline(values) ==
    IF values = <<>> THEN <<>>
    ELSE IF SeqMin(values) = SeqMax(values)
    THEN Repeat(BLOCKS[1], Min(Len(values), SparkWindow))
    ELSE LET last == IF Len(values) > SparkWindow
                     THEN SubSeq(values, Len(values) - SparkWindow + 1, Len(values))
                     ELSE values
         IN  [i \in 1..Len(last) |-> Bar(last[i], SeqMin(values), SeqMax(values))]

\* vals = [vals[int(i * step)] for i in range(width)], step = len(vals) / width
Sampled(vals, width) ==
    IF Len(vals) > width
    THEN [i \in 1..width |-> vals[(((i - 1) * Len(vals)) \div width) + 1]]
    ELSE vals

\* A sparkline that never samples.
V31SparklineMutant(values, width) ==
    IF Len(values) < 2 THEN <<"dash">>
    ELSE IF SeqMax(values) = SeqMin(values) THEN Repeat(BLOCKS[1], Len(values))
    ELSE [i \in 1..Len(values) |-> Bar(values[i], SeqMin(values), SeqMax(values))]

\* v31 sparkline(values, width): fewer than two values give the dash.
V31Sparkline(values, width) ==
    IF Len(values) < 2 THEN <<"dash">>
    ELSE LET vals == Sampled(values, width)
             lo == SeqMin(vals)
             hi == SeqMax(vals)
         IN  IF hi = lo THEN Repeat(BLOCKS[1], Len(vals))
             ELSE [i \in 1..Len(vals) |-> Bar(vals[i], lo, hi)]

\* it.trend = sparkline(hist)
MainTrend(values) ==
    /\ sver' = "main"
    /\ shist' = values
    /\ swidth' = SparkWindow
    /\ strend' = MainSparkline(values)
    /\ UNCHANGED <<storeVars, v3Vars, totVars, cycVars, keyVars, netVars, moneyVars, discVars, refetchVars, v32Vars>>

\* row.trend = sparkline(hist, width=14), and sparkline with other widths.
V31Trend(values, width) ==
    /\ sver' = "v31"
    /\ shist' = values
    /\ swidth' = width
    /\ strend' = V31Sparkline(values, width)
    /\ UNCHANGED <<storeVars, v3Vars, totVars, cycVars, keyVars, netVars, moneyVars, discVars, refetchVars, v32Vars>>

NextSpark ==
    \/ \E shape \in Shapes, n \in 0..MaxHist : MainTrend(History(shape, n))
    \/ \E shape \in Shapes, n \in 0..MaxHist, width \in Widths :
            V31Trend(History(shape, n), width)

SpecSpark == InitStoreAside /\ [][NextSpark]_vars

\* ----------------------------------------------------- Money parser ----
Digits == <<"0", "1", "2", "3", "4", "5", "6", "7", "8", "9">>

DigitChars == {Digits[i] : i \in 1..Len(Digits)}

IsDigit(c) == c \in DigitChars

DigitVal(c) == (CHOOSE i \in 1..Len(Digits) : Digits[i] = c) - 1

Separators == {".", ",", " "}

\* The digit of place p of a text: 1, 2, ..., 9, 1, ...
DigitAt(p) == Digits[((p - 1) % 9) + 2]

RECURSIVE Build(_, _, _)
\* The text whose digit groups have the lengths lens, with the separators
\* seps between them; p is the place of its first digit.
Build(lens, seps, p) ==
    IF lens = <<>> THEN <<>>
    ELSE [i \in 1..lens[1] |-> DigitAt(p + i - 1)]
            \o (IF seps = <<>> THEN <<>> ELSE <<seps[1]>>)
            \o Build(Tail(lens), IF seps = <<>> THEN <<>> ELSE Tail(seps), p + lens[1])

FirstLens == {1, 2, 3, 4}

GroupLens == {1, 2, 3}

\* Amounts of one, two and three digit groups.
AmountTexts ==
    {Build(<<a>>, <<>>, 1) : a \in FirstLens}
    \cup {Build(<<a, b>>, <<x>>, 1) : a \in FirstLens, b \in GroupLens, x \in Separators}
    \cup {Build(<<a, b, c>>, <<x, y>>, 1) :
            a \in FirstLens, b \in GroupLens, c \in GroupLens,
            x \in Separators, y \in Separators}

\* A text without an amount: free wording or bid-only wording, one element
\* for the whole wording.
FreeWordings == {"Gratis verzending", "Free shipping"}

BidWordings == {"Bieden"}

WordingTexts == {<<w>> : w \in FreeWordings \cup BidWordings}

\* "gratis" in low or "free" in low
HasFreeWording(t) == \E i \in 1..Len(t) : t[i] \in FreeWordings

\* "bieden" in low
HasBidWording(t) == \E i \in 1..Len(t) : t[i] \in BidWordings

RECURSIVE ToInt(_)
ToInt(ds) ==
    IF ds = <<>> THEN 0
    ELSE ToInt(SubSeq(ds, 1, Len(ds) - 1)) * 10 + DigitVal(ds[Len(ds)])

RECURSIVE Pow10(_)
Pow10(k) == IF k = 0 THEN 1 ELSE 10 * Pow10(k - 1)

RECURSIVE Float(_, _)
\* The float n / 10^k: 12.50 and 12.5 are the same float.
Float(n, k) ==
    IF k > 0 /\ n % 10 = 0 THEN Float(n \div 10, k - 1) ELSE [n |-> n, k |-> k]

DigitsOf(t) == SelectSeq(t, IsDigit)

RECURSIVE DigitRun(_, _)
\* The number of digits that follow each other in t from place p on.
DigitRun(t, p) ==
    IF p <= Len(t) /\ IsDigit(t[p]) THEN 1 + DigitRun(t, p + 1) ELSE 0

RECURSIVE Thousands(_, _)
\* (?:[.,\s][0-9]{3})* from the place after e: the place of the last
\* character it takes.
Thousands(t, e) ==
    IF e + 4 <= Len(t) /\ t[e + 1] \in Separators /\ DigitRun(t, e + 2) >= 3
    THEN Thousands(t, e + 4)
    ELSE e

\* Untitled-1.py parse_money_to_eur on a text without a currency: MONEY_RE
\* matches at the first digit; its first alternative takes up to three
\* digits and the groups of a separator and three digits, and the optional
\* ending takes a dot or comma and up to two digits.
MainParseMoney(t) ==
    LET starts == {p \in 1..Len(t) : IsDigit(t[p])}
    IN  IF starts = {} THEN None
        ELSE LET p == CHOOSE q \in starts : \A r \in starts : q <= r
                 e == Thousands(t, p - 1 + Min(3, DigitRun(t, p)))
                 fl == IF e + 2 <= Len(t) /\ t[e + 1] \in {".", ","}
                       THEN Min(2, DigitRun(t, e + 2)) ELSE 0
                 clean_int == DigitsOf(SubSeq(t, p, e))
                 frac == SubSeq(t, e + 2, e + 1 + fl)
             IN  Some(Float(ToInt(clean_int) * Pow10(fl) + ToInt(frac), fl))

\* float(s) of a string of digits, dots and spaces: None (ValueError) when
\* a space stands between the digits or more than one dot is there.
PyFloat(str) ==
    LET dots == {i \in 1..Len(str) : str[i] = "."}
    IN  IF (\E i \in 1..Len(str) : str[i] = " ") \/ Cardinality(dots) > 1
           \/ DigitsOf(str) = <<>>
        THEN None
        ELSE LET k == IF dots = {} THEN 0 ELSE Len(str) - (CHOOSE i \in dots : TRUE)
             IN  Some(Float(ToInt(DigitsOf(str)), k))

NoDots(str) == SelectSeq(str, LAMBDA c : c # ".")

NoCommas(str) == SelectSeq(str, LAMBDA c : c # ",")

CommasToDots(str) == [i \in 1..Len(str) |-> IF str[i] = "," THEN "." ELSE str[i]]

LastOf(str, c) ==
    LET at == {i \in 1..Len(str) : str[i] = c}
    IN  CHOOSE i \in at : \A j \in at : j <= i

\* v31 _to_float(num_str)
V31ToFloat(str) ==
    IF (\E i \in 1..Len(str) : str[i] = ",") /\ (\E i \in 1..Len(str) : str[i] = ".")
    THEN IF LastOf(str, ",") > LastOf(str, ".")
         THEN PyFloat(CommasToDots(NoDots(str)))
         ELSE PyFloat(NoCommas(str))
    ELSE PyFloat(CommasToDots(NoDots(str)))

\* v31 parse_money_to_eur on a text without a currency: free wording is
\* 0.0, else the first run of digits and separators goes to _to_float.
V31ParseMoney(t) ==
    IF t = <<>> THEN None
    ELSE IF HasFreeWording(t) THEN Some(Float(0, 0))
    ELSE LET starts == {p \in 1..Len(t) : t[p] \in DigitChars \cup Separators}
         IN  IF starts = {} THEN None
             ELSE LET p == CHOOSE q \in starts : \A r \in starts : q <= r
                      ends == {e \in p..Len(t) :
                                 /\ \A i \in p..e : t[i] \in DigitChars \cup Separators
                                 /\ (e = Len(t) \/ t[e + 1] \notin DigitChars \cup Separators)}
                  IN  V31ToFloat(SubSeq(t, p, CHOOSE e \in ends : TRUE))

\* v3 parse_money_to_eur on a text without digits: free wording is 0.0, and
\* none of the patterns finds an amount.
V3ParseWording(t) ==
    IF t = <<>> THEN None
    ELSE IF HasFreeWording(t) THEN Some(Float(0, 0))
    ELSE None

\* euros_from_text of the first revision on a text without digits:
\* "bieden", "gereserveerd", "zie omschrijving" and "gratis" all give None,
\* and so does a text in which no pattern finds an amount.
OldEurosFromText(t) == None

\* price_eur = parse_money_to_eur(text) in the revision ver.
ParseMoney(ver, t) ==
    /\ mver = "none"
    /\ mver' = ver
    /\ mtext' = t
    /\ mret' = CASE ver = "main" -> MainParseMoney(t)
                  [] ver = "v31"  -> V31ParseMoney(t)
                  [] ver = "v3"   -> V3ParseWording(t)
                  [] ver = "old"  -> OldEurosFromText(t)
    /\ UNCHANGED <<storeVars, v3Vars, totVars, cycVars, keyVars, netVars, sparkVars, discVars, refetchVars, v32Vars>>

\* The caller has the amount and goes on to the next text.
ParseMoneyDone ==
    /\ mver # "none"
    /\ mver' = "none"
    /\ mtext' = <<>>
    /\ mret' = None
    /\ UNCHANGED <<storeVars, v3Vars, totVars, cycVars, keyVars, netVars, sparkVars, discVars, refetchVars, v32Vars>>

NextMoney ==
    \/ \E ver \in {"main", "v31"}, t \in AmountTexts \cup WordingTexts : ParseMoney(ver, t)
    \/ \E ver \in {"v3", "old"}, t \in WordingTexts : ParseMoney(ver, t)
    \/ ParseMoneyDone

SpecMoney == InitStoreAside /\ [][NextMoney]_vars

\* -------------------------------------------------------- Discovery ----
\* The links of a Marktplaats results page: form is how the href begins,
\* id the ad id in its path, no stands for the rest of its text (title
\* part, query string).
Hrefs == [form : {"/", "//", "https://"}, id : {1, 2}, no : {1, 2}]

\* href = "https:" + href, href = "https://www.marktplaats.nl" + href: the
\* three forms of one link are one URL.
Absolute(h) == [id |-> Some(h.id), no |-> h.no]

RECURSIVE DeDup(_)
\* list(dict.fromkeys(urls)): the first of equal elements stays.
DeDup(q) ==
    IF q = <<>> THEN <<>>
    ELSE LET front == DeDup(SubSeq(q, 1, Len(q) - 1))
         IN  IF \E i \in 1..Len(front) : front[i] = q[Len(q)]
             THEN front ELSE Append(front, q[Len(q)])

\* discover_mp_urls(html): the anchors, then the itemListElement of the
\* JSON-LD block, each list without equal URLs.
discover_mp_urls(anchors, jsonld) ==
    DeDup(DeDup([i \in 1..Len(anchors) |-> Absolute(anchors[i])])
            \o [i \in 1..Len(jsonld) |-> Absolute(jsonld[i])])

\* The cards of an eBay results page: the item id of a card, None when the
\* card shows none.
CardIds == {None, Some(1), Some(2)}

RECURSIVE CardItems(_, _)
\* The loop over the cards: a card without id or with an id of seen_ids is
\* passed over.
CardItems(cards, seen_ids) ==
    IF cards = <<>> THEN <<>>
    ELSE IF ~Known(Head(cards)) \/ Val(Head(cards)) \in seen_ids
         THEN CardItems(Tail(cards), seen_ids)
         ELSE <<Val(Head(cards))>> \o CardItems(Tail(cards), seen_ids \cup {Val(Head(cards))})

\* parse_ebay_results(session, html): the items of the cards; when there is
\* none, one item for every match of /itm/(\d+) in the page.
parse_ebay_results(cards, matches) ==
    IF CardItems(cards, {}) # <<>> THEN CardItems(cards, {}) ELSE matches

SeqsUpTo2(S) == {<<>>} \cup {<<a>> : a \in S} \cup {<<a, b>> : a \in S, b \in S}

\* urls = discover_mp_urls(r.text)
DiscoverMp(anchors, jsonld) ==
    /\ dsrc = "none"
    /\ dsrc' = "mp"
    /\ dcands' = discover_mp_urls(anchors, jsonld)
    /\ dupserted' = <<>>
    /\ UNCHANGED <<storeVars, v3Vars, totVars, cycVars, keyVars, netVars, sparkVars, moneyVars, refetchVars, v32Vars>>

\* it = parse_mp_ad(session, u, stop_event); db.upsert_item(it)
UpsertMpCandidate ==
    /\ dsrc = "mp"
    /\ dcands # <<>>
    /\ dupserted' = Append(dupserted, MainKey(0, Head(dcands)))
    /\ dcands' = Tail(dcands)
    /\ UNCHANGED dsrc
    /\ UNCHANGED <<storeVars, v3Vars, totVars, cycVars, keyVars, netVars, sparkVars, moneyVars, refetchVars, v32Vars>>

\* items = parse_ebay_results(session, r2.text), after the Marktplaats pass.
DiscoverEbay(cards, matches) ==
    /\ dsrc = "mp"
    /\ dcands = <<>>
    /\ dsrc' = "ebay"
    /\ dcands' = parse_ebay_results(cards, matches)
    /\ UNCHANGED dupserted
    /\ UNCHANGED <<storeVars, v3Vars, totVars, cycVars, keyVars, netVars, sparkVars, moneyVars, refetchVars, v32Vars>>

\* db.upsert_item(it) of the eBay pass: key=f"EBAY:{item_id}".
UpsertEbayCandidate ==
    /\ dsrc = "ebay"
    /\ dcands # <<>>
    /\ dupserted' = Append(dupserted, <<"EBAY:", Head(dcands)>>)
    /\ dcands' = Tail(dcands)
    /\ UNCHANGED dsrc
    /\ UNCHANGED <<storeVars, v3Vars, totVars, cycVars, keyVars, netVars, sparkVars, moneyVars, refetchVars, v32Vars>>

\* The cycle is over.
DiscoverDone ==
    /\ dsrc = "ebay"
    /\ dcands = <<>>
    /\ dsrc' = "none"
    /\ dupserted' = <<>>
    /\ UNCHANGED dcands
    /\ UNCHANGED <<storeVars, v3Vars, totVars, cycVars, keyVars, netVars, sparkVars, moneyVars, refetchVars, v32Vars>>

NextDiscover ==
    \/ \E anchors \in SeqsUpTo2(Hrefs), jsonld \in SeqsUpTo2(Hrefs) :
            DiscoverMp(anchors, jsonld)
    \/ UpsertMpCandidate
    \/ \E cards \in SeqsUpTo2(CardIds), matches \in SeqsUpTo2({1, 2}) :
            DiscoverEbay(cards, matches)
    \/ UpsertEbayCandidate
    \/ DiscoverDone

SpecDiscover == InitStoreAside /\ [][NextDiscover]_vars

\* ---------------------------------------------- Pass of a candidate ----
\* The statuses polite_get comes back with: 200 with a page; 0, the
\* DummyResponse (stop signal set, or every attempt failed); 503.
Statuses == {200, 0, 503}

Titles == {"ZX Spectrum 48K", "ZX Spectrum +2"}

\* title = f"(HTTP {status})"
HttpTitle(status) == IF status = 0 THEN "(HTTP 0)" ELSE "(HTTP 503)"

\* parse_mp_ad(session, url, stop_event): with status 200 and a page, the
\* title and the prices of the page; else the title "(HTTP <status>)" and
\* no price. total_eur = compute_total(price_eur, ship_eur).
parse_mp_ad(status, title, price, ship) ==
    IF status = 200
    THEN [title |-> title, price_eur |-> price, ship_eur |-> ship,
          total_eur |-> compute_total(price, ship)]
    ELSE [title |-> HttpTitle(status), price_eur |-> None, ship_eur |-> None,
          total_eur |-> compute_total(None, None)]

\* db.upsert_item(it): INSERT or UPDATE ads SET title=?, last_price=?,
\* last_ship=?, last_total=?, whatever the item holds.
StoredRow(row, status, it) ==
    Some([title |-> it.title, last_price |-> it.price_eur,
          last_ship |-> it.ship_eur, last_total |-> it.total_eur])

\* One turn of the Marktplaats loop of worker_fetch: parse_mp_ad, then
\* db.upsert_item.
MpPass(u, status, title, price, ship) ==
    /\ flast' = Some([url |-> u, status |-> status, before |-> frows[u]])
    /\ frows' = [frows EXCEPT
                    ![u] = StoredRow(frows[u], status, parse_mp_ad(status, title, price, ship))]
    /\ UNCHANGED <<storeVars, v3Vars, totVars, cycVars, keyVars, netVars, sparkVars, moneyVars, discVars, v32Vars>>

NextRefetch ==
    \E u \in {1, 2}, status \in Statuses, title \in Titles,
       price \in OptPrices, ship \in OptShips :
          MpPass(u, status, title, price, ship)

SpecRefetch == InitStoreAside /\ [][NextRefetch]_vars

\* ------------------------------------------- Fetch Now and Stop, v32 ----
V32Threads == 1..MaxThreads

\* A thread that runs _worker and has not reached its last statement.
Working(t) == wpc[t] \in {"search", "check", "parse"}

DONE == [done |-> TRUE]

\* App.fetch_now: if self.fetching: return; self.fetching = True;
\* threading.Thread(target=self._worker, daemon=True).start()
V32FetchNow ==
    /\ ~wfetching
    /\ \E t \in V32Threads :
          /\ wpc[t] = "unborn"
          /\ \A o \in V32Threads : o < t => wpc[o] # "unborn"
          /\ wpc' = [wpc EXCEPT ![t] = "search"]
    /\ wfetching' = TRUE
    /\ UNCHANGED <<wi, wn, wq, wtree, wstopped, wlate>>
    /\ UNCHANGED <<storeVars, v3Vars, totVars, cycVars, keyVars, netVars, sparkVars, moneyVars, discVars, refetchVars>>

\* App.stop_fetch: self.fetching = False
V32StopFetch ==
    /\ wfetching' = FALSE
    /\ wstopped' = wstopped \cup {t \in V32Threads : Working(t)}
    /\ UNCHANGED <<wpc, wi, wn, wq, wtree, wlate>>
    /\ UNCHANGED <<storeVars, v3Vars, totVars, cycVars, keyVars, netVars, sparkVars, moneyVars, discVars, refetchVars>>

\* _worker: urls = mp_search()
V32Search(t, n) ==
    /\ wpc[t] = "search"
    /\ wn' = [wn EXCEPT ![t] = n]
    /\ wi' = [wi EXCEPT ![t] = 1]
    /\ wpc' = [wpc EXCEPT ![t] = "check"]
    /\ UNCHANGED <<wfetching, wq, wtree, wstopped, wlate>>
    /\ UNCHANGED <<storeVars, v3Vars, totVars, cycVars, keyVars, netVars, sparkVars, moneyVars, discVars, refetchVars>>

\* _worker: for i,u in enumerate(urls,1): if not self.fetching: break
V32Check(t) ==
    /\ wpc[t] = "check"
    /\ IF wi[t] > wn[t] \/ ~wfetching
       THEN /\ wpc' = [wpc EXCEPT ![t] = "done"]
            /\ UNCHANGED wlate
       ELSE /\ wpc' = [wpc EXCEPT ![t] = "parse"]
            /\ wlate' = (wlate \/ t \in wstopped)
    /\ UNCHANGED <<wfetching, wi, wn, wq, wtree, wstopped>>
    /\ UNCHANGED <<storeVars, v3Vars, totVars, cycVars, keyVars, netVars, sparkVars, moneyVars, discVars, refetchVars>>

\* _worker: row = mp_parse_ad(u); if row: self.q.put(row); time.sleep(1)
V32Parse(t, row) ==
    /\ wpc[t] = "parse"
    /\ wq' = IF row THEN Append(wq, [done |-> FALSE, key |-> wi[t]]) ELSE wq
    /\ wi' = [wi EXCEPT ![t] = wi[t] + 1]
    /\ wpc' = [wpc EXCEPT ![t] = "check"]
    /\ UNCHANGED <<wfetching, wn, wtree, wstopped, wlate>>
    /\ UNCHANGED <<storeVars, v3Vars, totVars, cycVars, keyVars, netVars, sparkVars, moneyVars, discVars, refetchVars>>

\* _worker: self.q.put({"done":True})
V32PutDone(t) ==
    /\ wpc[t] = "done"
    /\ wq' = Append(wq, DONE)
    /\ wpc' = [wpc EXCEPT ![t] = "dead"]
    /\ UNCHANGED <<wfetching, wi, wn, wtree, wstopped, wlate>>
    /\ UNCHANGED <<storeVars, v3Vars, totVars, cycVars, keyVars, netVars, sparkVars, moneyVars, discVars, refetchVars>>

\* The keys of the rows of a queue, in order.
RECURSIVE RowsOf(_)
RowsOf(q) ==
    IF q = <<>> THEN <<>>
    ELSE IF Head(q).done THEN RowsOf(Tail(q))
    ELSE <<Head(q).key>> \o RowsOf(Tail(q))

\* App._process_queue: until queue.Empty, a "done" item clears the flag,
\* any other item is inserted in the table.
V32ProcessQueue ==
    /\ wq # <<>>
    /\ wfetching' = IF \E k \in 1..Len(wq) : wq[k].done THEN FALSE ELSE wfetching
    /\ wtree' = wtree \o RowsOf(wq)
    /\ wq' = <<>>
    /\ UNCHANGED <<wpc, wi, wn, wstopped, wlate>>
    /\ UNCHANGED <<storeVars, v3Vars, totVars, cycVars, keyVars, netVars, sparkVars, moneyVars, discVars, refetchVars>>

NextV32 ==
    \/ V32FetchNow
    \/ V32StopFetch
    \/ \E t \in V32Threads, n \in 0..MaxUrls : V32Search(t, n)
    \/ \E t \in V32Threads : V32Check(t)
    \/ \E t \in V32Threads, row \in BOOLEAN : V32Parse(t, row)
    \/ \E t \in V32Threads : V32PutDone(t)
    \/ V32ProcessQueue

SpecV32 == InitStoreAside /\ [][NextV32]_vars

\* ------------------------------------------------- Store properties ----
Idle == \A t \in V32Threads : pc[t] = "idle"

\* The upsert_item calls of key k that carry a price and have not returned.
PricedInProgress(k) == {t \in V32Threads : InUpsert(t, k) /\ Priced(arg[t].it)}

\* C1: upsert_item appends exactly one price_history entry of the record's
\* key when the total or the item price is known and none otherwise, the
\* entry's price being total_eur when known, else price_eur: the table is the
\* list of the entries the returned calls call for, and for every key the
\* entries stored plus the priced calls still running are the priced calls made.
C1_OneEntryPerPricedUpsert ==
    /\ hist = expHist
    /\ \A k \in Keys :
          Cardinality(KeyIdx(hist, k)) + Cardinality(PricedInProgress(k)) = issued[k]

\* Two calls have returned, one with neither total nor price, one with the
\* item price only: one entry, at the item price.
C1_Witness ==
    /\ Idle
    /\ nCalls = 2
    /\ Len(hist) = 1
    /\ hist[1].price = 8
    /\ issued[hist[1].key] = 1

\* C3 (as the specification states it): no reader observes the state between
\* the ads write and the history append, neither get_price_history on the
\* same Store nor a read of the same file through another connection.
C3_NoReaderSeesTornState ==
    /\ ret.n = 1 => ~ret.torn
    /\ rd.n = 1 => ~rd.torn

\* C4: concurrent upsert_item calls of one key lose and duplicate nothing:
\* no call raises, the key has at most one ads row and that row holds the
\* fields of one whole call, and once the calls of a key have returned every
\* priced one has its history entry.
C4_NoLostOrDuplicatedUpdate ==
    /\ failed = 0
    /\ \A k \in Keys :
          /\ Cardinality(AdsOf(ads, k)) <= 1
          /\ (lastCall[k] # <<>>) = (AdsOf(ads, k) # {})
          /\ \A r \in AdsOf(ads, k) :
                /\ r.last_price = lastCall[k][1].it.price_eur
                /\ r.last_ship = lastCall[k][1].it.ship_eur
                /\ r.last_total = lastCall[k][1].it.total_eur
                /\ r.last_seen = lastCall[k][1].now
          /\ (\A t \in V32Threads : ~InUpsert(t, k))
                => Cardinality(KeyIdx(hist, k)) = issued[k]

\* Two priced calls of one key overlapped and both have returned.
C4_Witness ==
    /\ raced
    /\ Idle
    /\ \E k \in Keys : issued[k] = 2 /\ Cardinality(AdsOf(ads, k)) = 1

\* rows is a list of prices of limit most recent entries of key k in h,
\* oldest first: some entries of k, as many as there are up to limit, listed by
\* seen_at ascending, none of them older than an entry of k left out.
RecentOldestFirst(h, k, limit, rows) ==
    /\ Len(rows) <= limit
    /\ Len(rows) = Min(limit, Cardinality(KeyIdx(h, k)))
    /\ \E f \in [1..Len(rows) -> KeyIdx(h, k)] :
          /\ \A a, b \in 1..Len(rows) : a # b => f[a] # f[b]
          /\ \A j \in 1..Len(rows) : rows[j] = h[f[j]].price
          /\ \A a, b \in 1..Len(rows) : a < b => h[f[a]].seen_at <= h[f[b]].seen_at
          /\ \A i \in KeyIdx(h, k) \ {f[j] : j \in 1..Len(rows)} :
                \A j \in 1..Len(rows) : h[i].seen_at <= h[f[j]].seen_at

Earlier(i) == {j \in 1..(i - 1) : v3log[j].ad.ad_id = v3log[i].ad.ad_id}

\* Those of them whose item price was known.
EarlierPriced(i) == {j \in Earlier(i) : Known(v3log[j].ad.price_eur)}

Last(S) == CHOOSE j \in S : \A m \in S : m <= j

\* The item price of the most recent earlier observation that had one.
LastKnownPrice(i) ==
    IF EarlierPriced(i) = {} THEN None ELSE v3log[Last(EarlierPriced(i))].ad.price_eur

\* The total of the observation just before entry i.
PreviousTotal(i) ==
    IF Earlier(i) = {} THEN None ELSE v3log[Last(Earlier(i))].ad.total_eur

\* The verdict the specification defines on (isNew, prior, new).
Classify(isNew, prior, new) ==
    IF isNew THEN "NEW"
    ELSE IF Known(prior) /\ Known(new) /\ Val(new) < Val(prior) THEN "PRICE_DROP"
    ELSE "UNCHANGED"

\* The verdict a row's flags show.
Verdict(flags) ==
    IF "NEW" \in flags THEN "NEW"
    ELSE IF "DROP" \in flags THEN "PRICE_DROP"
    ELSE "UNCHANGED"

C8_TotalNeverFabricated ==
    \A i \in 1..Len(totRecs) :
        LET r == totRecs[i] IN
        IF Known(r.price) \/ Known(r.ship)
        THEN r.total = Some(OrZero(r.price) + OrZero(r.ship))
        ELSE r.total = None

\* ------------------------------------------------- cycle properties ----
Finished == ~fetch_running /\ \A w \in V32Threads : ~Alive(w)

\* The candidates after candidate k: later URLs and every eBay result.
Later(k) == {c \in histFor : c[1] = "EBAY" \/ c[2] > k}

\* C9: when the cancellation signal is set after the record of candidate k
\* and before the fetch of candidate k+1 starts, the cycle emits exactly k
\* records, appends no history for candidate k+1 or a later one, and ends
\* with a final status that differs from the one of a completed cycle.
C9_CancelledAfterRecordK ==
    (Finished /\ stopAfter # None) =>
        /\ emitted = Val(stopAfter)
        /\ Later(Val(stopAfter)) = {}
        /\ lastDone # Some("Fetch complete")

AtMostOneWorker == Cardinality({w \in V32Threads : Alive(w)}) <= 1

CycleUntouched == UNCHANGED <<fetch_running, stop_event, workers, qout,
                              emitted, histFor, lastDone, shown>>

C11_CycleEndsWithOneDone ==
    /\ [][/\ \A w \in V32Threads :
               (Alive(w) /\ ~Alive(w)') <=> (At(w, "done") /\ workers'[w] = NoWorker
                                              /\ qout' = Append(qout, MSG_DONE))
          /\ (Len(qout') > Len(qout)) => \E w \in V32Threads : Alive(w)
          /\ (HasDone(qout') /\ qout' # qout) =>
                (qout'[Len(qout')] = MSG_DONE
                 /\ \A j \in 1..(Len(qout') - 1) : qout'[j].type # "DONE")]_vars
    /\ [](fetch_running <=> ((\E w \in V32Threads : Alive(w)) \/ HasDone(qout)))
    /\ (fetch_running ~> (~fetch_running /\ \A w \in V32Threads : ~Alive(w)))

\* A thread has ended after a failure it reported: MSG_ERROR is in the
\* queue, MSG_DONE is the last message, and the flag waits for the poll.
C11_Witness ==
    /\ fetch_running
    /\ \A w \in V32Threads : ~Alive(w)
    /\ \E j \in 1..Len(qout) : qout[j] = MSG_ERROR
    /\ qout[Len(qout)] = MSG_DONE

\* The messages put in this step.
PutNow == SubSeq(qout', Len(qout) + 1, Len(qout'))

\* The thread in slot w ends its pass over a candidate whose fetch failed.
FailedPass(w) ==
    /\ At(w, "mp_store")
    /\ workers[w].it = "failed"
    /\ workers'[w] # workers[w]

\* C12: when the fetch of a candidate fails (status 0 or another status
\* than 200), the worker puts a soft-failure event for it and no record, and
\* goes on with the next candidate.
C12_FailedFetchIsSoftFailure ==
    [][\A w \in V32Threads :
          FailedPass(w) =>
              /\ emitted' = emitted
              /\ \A j \in 1..Len(PutNow) : ~IsUpsert(PutNow[j])
              /\ \E j \in 1..Len(PutNow) : PutNow[j] = MSG_ERROR
              /\ workers'[w].pc = "mp_top"]_vars

\* A store call of the pass the thread in slot w ends in this step raised.
StoreFailed(w) ==
    \E outcome \in StoreOutcomes \ {"ok"} :
        \/ WMpStoreWith(w, outcome)
        \/ \E page \in {"priced", "unpriced"} : WEbayStoreWith(w, page, outcome)

\* C13 (as the specification states it): when a store call fails, the cycle
\* reports an error event, emits no record for that candidate, goes on with
\* no further candidate and ends.
C13_StoreFailureEndsCycle ==
    [][\A w \in V32Threads :
          StoreFailed(w) =>
              /\ PutNow[1] = MSG_ERROR
              /\ \A j \in 1..Len(PutNow) : ~IsUpsert(PutNow[j])
              /\ emitted' = emitted
              /\ workers'[w].pc = "done"]_vars

\* C13 (amended): when a store call fails, the worker reports an error
\* event for that candidate, then emits the candidate's record all the same,
\* and goes on to the head of the loop for the next candidate.
C13_StoreFailureReportedCycleGoesOn ==
    [][\A w \in V32Threads :
          StoreFailed(w) =>
              /\ PutNow[1] = MSG_ERROR
              /\ IsUpsert(PutNow[2])
              /\ \A j \in 2..Len(PutNow) : PutNow[j] # MSG_ERROR
              /\ emitted' = emitted + 1
              /\ workers'[w].pc \in {"mp_top", "ebay_top"}]_vars

\* A store call failed for candidate 1 of 2; the error and the record are
\* in the queue and the thread is fetching candidate 2.
C13_Witness ==
    \E w \in V32Threads :
        /\ At(w, "mp_get")
        /\ workers[w].i = 2
        /\ ~stop_event
        /\ emitted = 1
        /\ Len(qout) >= 3
        /\ SubSeq(qout, Len(qout) - 2, Len(qout))
              = <<MSG_ERROR, MSG_UPSERT(<<"MP", 1>>), MSG_STATUS>>

\* ---------------------------------------------------------------------
\* C14: records reach the consumer in discovery order
\* ---------------------------------------------------------------------

\* The records of the running cycle: those the consumer has handled, then
\* those still waiting in the queue.
RecordsInOrder == shown \o Handled(qout)

\* C14: within one cycle, for two candidates i < j of the same source that
\* both yield a record, record i is put on the queue before record j and is
\* handled by the consumer before record j: a record of candidate j never
\* stands before a record of candidate i, neither in the queue nor between
\* what was handled and what is still queued.
C14_RecordsInDiscoveryOrder ==
    \A a, b \in 1..Len(RecordsInOrder) :
        (a < b /\ RecordsInOrder[a][1] = RecordsInOrder[b][1])
            => RecordsInOrder[a][2] < RecordsInOrder[b][2]

\* Candidate 1 of Marktplaats has been handled while candidate 2 of the same
\* cycle has been put and waits in the queue, or both were handled.
C14_Witness ==
    /\ Len(shown) >= 1 /\ shown[1] = <<"MP", 1>>
    /\ \/ \E j \in 1..Len(qout) : qout[j] = MSG_UPSERT(<<"MP", 2>>)
       \/ (Len(shown) >= 2 /\ shown[2] = <<"MP", 2>>)

\* ---------------------------------------------------------------------
\* C15: timestamps of one key under concurrent upsert_item calls
\* ---------------------------------------------------------------------

HistOf(h, k) == SelectSeq(h, LAMBDA e : e.key = k)

\* C15: for every key, the price_history entries are appended in
\* non-decreasing seen_at order, and the last_seen of the ads row never
\* decreases from one upsert to the next, for every interleaving of
\* concurrent upsert_item calls on that key.
C15_TimestampsNeverGoBack ==
    /\ [](\A k \in Keys :
            \A a, b \in 1..Len(HistOf(hist, k)) :
                a < b => HistOf(hist, k)[a].seen_at <= HistOf(hist, k)[b].seen_at)
    /\ [][\A k \in Keys :
            \A r \in AdsOf(ads, k) : \A r2 \in AdsOf(ads', k) :
                r.last_seen <= r2.last_seen]_vars

\* ---------------------------------------------------------------------
\* C16: the key of a listing URL over fetches and process runs
\* ---------------------------------------------------------------------

\* C16: the key computed for a listing URL is the same in every fetch and in
\* every process run, also when the URL carries no id of its source and the
\* fallback id is used; a listing stored in one run is never treated as
\* unseen in a later run.
C16_KeyStableAcrossRuns ==
    /\ \A u \in Urls : Cardinality(keysOf[u]) <= 1
    /\ kfresh = {}

\* ---------------------------------------------------------------------
\* C17: polite_get never raises
\* ---------------------------------------------------------------------

BudgetExhausted ==
    IF nver = "main" THEN ngets = Len(RETRY_BACKOFF) ELSE nretries = RetryTotal

\* C18: a GET that times out, fails to connect or returns a non-2xx status
\* is retried until the retry budget is exhausted: no non-2xx response is
\* handed to the caller of polite_get while attempts remain in the budget.
C18_Non2xxRetriedUntilBudgetExhausted ==
    (nop = "polite_get" /\ npc = "returned" /\ nret # DummyResponse
        /\ nret.status_code \notin 200..299)
            => BudgetExhausted

\* ---------------------------------------------------------------------
\* C19: no GET after the stop signal
\* ---------------------------------------------------------------------

\* C19: once the stop signal is set, no new GET request is started:
\* polite_get called with the signal set returns the sentinel DummyResponse
\* and fetch_bytes returns None, both without any request, and a retry loop
\* already in progress makes no further attempt after the signal is set.
C19_NoGetAfterStop == ~nlate

\* ---------------------------------------------------------------------
\* C20: the length of the trend string
\* ---------------------------------------------------------------------

Palette == {BLOCKS[i] : i \in 1..Len(BLOCKS)}

MinLenWidth ==
    /\ Len(strend) = Min(Len(shist), swidth)
    /\ \A i \in 1..Len(strend) : strend[i] \in Palette

\* C20: for every history and every width, the trend string has exactly
\* min(len(history), width) glyphs of the palette.
C20_TrendHasMinLenWidthGlyphs == sver # "none" => MinLenWidth

\* C20, amended: the trend string of Untitled-1.py has exactly
\* min(len(history), 16) glyphs for every history; the trend string of v31
\* has exactly min(len(history), width) glyphs for every history of two or
\* more values and every width from 1 on, and is the one-character dash,
\* which is no glyph of the palette, for a history of fewer than two values.
C20_TrendLengthFromTwoValues ==
    /\ sver = "main" => MinLenWidth
    /\ (sver = "v31" /\ Len(shist) >= 2) => MinLenWidth
    /\ (sver = "v31" /\ Len(shist) < 2) => strend = <<"dash">>

\* v31 has summarised a history longer than the width, with more than one
\* value in it.
C20_Witness ==
    /\ sver = "v31" /\ Len(shist) > swidth /\ swidth >= 2
    /\ SeqMin(shist) # SeqMax(shist)
    /\ Len(strend) = swidth

\* ---------------------------------------------------------------------
\* C21: the no-trend marker
\* ---------------------------------------------------------------------

\* C21: for every history with fewer than 2 points (empty or a single
\* value), the trend summarizer returns the no-trend sentinel and not a
\* glyph string.
C21_ShortHistoryGivesSentinel ==
    (sver # "none" /\ Len(shist) < 2) => strend = <<"dash">>

\* ---------------------------------------------------------------------
\* C22: the trend of a history longer than the width
\* ---------------------------------------------------------------------

\* The most recent w values of v.
MostRecent(v, w) == SubSeq(v, Len(v) - w + 1, Len(v))

\* Glyph i is the palette position floor((v_i - min) / (max - min) * 6) of
\* the i-th of the values v, min and max taken over v; the lowest glyph
\* throughout when the values are all equal.
Bucketed(v) ==
    IF SeqMin(v) = SeqMax(v) THEN Repeat(BLOCKS[1], Len(v))
    ELSE [i \in 1..Len(v) |->
             BLOCKS[(((v[i] - SeqMin(v)) * (Len(BLOCKS) - 1)) \div (SeqMax(v) - SeqMin(v))) + 1]]

\* C22: when the history is longer than the width, the trend is computed
\* from the most recent width values only: glyph i is the palette position
\* of the i-th of those values, with min and max taken over those values,
\* and all glyphs are the lowest one when those values are all equal.
C22_TrendOfMostRecentValues ==
    (sver # "none" /\ Len(shist) > swidth)
        => strend = Bucketed(MostRecent(shist, swidth))

\* ---------------------------------------------------------------------
\* C23: summarising a summary
\* ---------------------------------------------------------------------

\* The place of glyph g in the palette, counted from 0.
PositionOf(g) == (CHOOSE i \in 1..Len(BLOCKS) : BLOCKS[i] = g) - 1

\* The palette positions of the glyphs of the string t.
Positions(t) ==
    LET glyphs == SelectSeq(t, LAMBDA c : c \in Palette)
    IN  [i \in 1..Len(glyphs) |-> PositionOf(glyphs[i])]

\* C23: the trend summarizer is idempotent on its own output: summarizing,
\* with the same width, the sequence of palette positions of the glyphs of
\* a summary returns the same glyph string.
C23_SummaryOfSummaryIsSame ==
    /\ sver = "main" => MainSparkline(Positions(strend)) = strend
    /\ sver = "v31" => V31Sparkline(Positions(strend), swidth) = strend

\* ---------------------------------------------------------------------
\* C24: the decimal point of an amount
\* ---------------------------------------------------------------------

IsAmount(t) == t # <<>> /\ \A i \in 1..Len(t) : t[i] \in DigitChars \cup Separators

\* The digits that follow the rightmost separator of t.
AfterLastSeparator(t) ==
    LET at == {i \in 1..Len(t) : t[i] \in Separators}
    IN  Len(t) - (CHOOSE i \in at : \A j \in at : j <= i)

\* The amount of t by the rule: two digits after the rightmost separator
\* are cents, and every other separator is a thousands separator.
ByRightmostSeparator(t) ==
    IF AfterLastSeparator(t) = 2 THEN Float(ToInt(DigitsOf(t)), 2)
                                 ELSE Float(ToInt(DigitsOf(t)), 0)

\* C24: for every amount made of digit groups and separators, the money
\* parser treats the rightmost separator as the decimal point exactly when
\* exactly 2 digits follow it, all other separators being thousands
\* separators; with 1 or 3 digits after the rightmost separator every
\* separator is a thousands separator and the amount is an integer.
C24_RightmostSeparatorRule ==
    (/\ mver \in {"main", "v31"}
     /\ IsAmount(mtext)
     /\ \E i \in 1..Len(mtext) : mtext[i] \in Separators)
        => mret = Some(ByRightmostSeparator(mtext))

\* ---------------------------------------------------------------------
\* C25: free and unknown
\* ---------------------------------------------------------------------

\* C25: the money parser keeps free and unknown apart: text with free
\* wording and no amount yields exactly 0.00, text with bid-only wording
\* and no amount yields None.
C25_FreeIsZeroBidIsNone ==
    /\ (mver # "none" /\ mtext \in WordingTexts /\ HasFreeWording(mtext))
            => mret = Some(Float(0, 0))
    /\ (mver # "none" /\ mtext \in WordingTexts /\ HasBidWording(mtext))
            => mret = None

\* ---------------------------------------------------------------------
\* C26: one upsert of a key in a cycle
\* ---------------------------------------------------------------------

\* C26: within one scan cycle every key is upserted at most once: no two
\* candidates processed in the same cycle resolve to the same key, whether
\* two discovered URLs carry the same ad id or the same item id occurs
\* several times in the results page.
C26_EachKeyUpsertedOnce ==
    \A a, b \in 1..Len(dupserted) : a # b => dupserted[a] # dupserted[b]

\* ---------------------------------------------------------------------
\* C27: upsert_item under failure
\* ---------------------------------------------------------------------

\* C27: upsert_item is all-or-nothing under failure: if the call fails, or
\* the process stops, after the ads write and before the history append,
\* the ads write is not persisted; once no call of a key is running, the
\* ads row of the key carries the values of a priced observation only if
\* the history entry of that observation is in the file too.
C27_UpsertAllOrNothing ==
    \A k \in Keys :
        (/\ \A t \in V32Threads : ~InUpsert(t, k)
         /\ lastCall[k] # <<>>
         /\ Priced(lastCall[k][1].it)
         /\ \E r \in AdsOf(ads, k) :
                /\ r.last_price = lastCall[k][1].it.price_eur
                /\ r.last_total = lastCall[k][1].it.total_eur
                /\ r.last_seen = lastCall[k][1].now)
            => \E i \in KeyIdx(hist, k) :
                  /\ hist[i].seen_at = lastCall[k][1].now
                  /\ hist[i].price = Val(PriceForHist(lastCall[k][1].it))

\* ---------------------------------------------------------------------
\* C28: what an upsert leaves alone
\* ---------------------------------------------------------------------

\* C28: after any sequence of upserts, every key ever upserted has exactly
\* one ads row; no ads row and no history entry is ever removed, and no
\* history entry is rewritten; the first_seen of a row is the timestamp of
\* the upsert that made the row, the first of its key, and every later
\* upsert leaves it unchanged.
C28_RowsStayFirstSeenStays ==
    /\ [](\A k \in Keys :
            /\ Cardinality(AdsOf(ads, k)) <= 1
            /\ lastCall[k] # <<>> => Cardinality(AdsOf(ads, k)) = 1)
    /\ [][/\ Len(hist') >= Len(hist)
          /\ SubSeq(hist', 1, Len(hist)) = hist
          /\ \A k \in Keys :
                /\ \A r \in AdsOf(ads, k) :
                      \E r2 \in AdsOf(ads', k) : r2.first_seen = r.first_seen
                /\ (AdsOf(ads, k) = {} /\ AdsOf(ads', k) # {}) =>
                      \E t \in V32Threads :
                          /\ UpsertWrite(t)
                          /\ arg[t].key = k
                          /\ lastCall[k] = <<>>
                          /\ \A r2 \in AdsOf(ads', k) : r2.first_seen = arg[t].now]_vars

\* A key was upserted at time 0 and again at time 1, and both calls have
\* returned: the row was first seen at 0 and last seen at 1.
C28_Witness ==
    /\ Idle
    /\ \E r \in ads : r.first_seen = 0 /\ r.last_seen = 1

\* ---------------------------------------------------------------------
\* C29: a candidate without a page
\* ---------------------------------------------------------------------

\* C29: a candidate whose page could not be retrieved (the stop signal was
\* set during its retrieval, or the transport failed) leaves the store row
\* of its key unchanged: the title and the last item, shipping and total
\* prices stored for a known listing are not overwritten with a placeholder
\* title and unknown prices.
C29_FailedFetchLeavesRowUnchanged ==
    (Known(flast) /\ Val(flast).status # 200 /\ Known(Val(flast).before))
        => frows[Val(flast).url] = Val(flast).before

\* ---------------------------------------------------------------------
\* C30: Fetch Now and Stop in v32
\* ---------------------------------------------------------------------

\* C30: in v32, whose Stop clears the fetching flag directly, no sequence of
\* Fetch Now and Stop requests leaves two worker threads running at the same
\* time, and a worker that was running when Stop was pressed processes no
\* further candidate, also when Fetch Now is requested again before that
\* worker has looked at the flag.
C30_StopEndsTheRunningWorker ==
    /\ Cardinality({t \in V32Threads : Working(t)}) <= 1
    /\ ~wlate

====
